---- MODULE Spec2Model ----
(***************************************************************************)
(* A model of the punchcard library: the IBM 029 character encoder         *)
(* (encoding.rs), the 80-column PunchCard (punchcards.rs) and the Deck of  *)
(* CardRecords with its header policy (deck.rs).                           *)
(*                                                                         *)
(* Conventions.  A Rust char is a TLA+ string (the two non-ASCII           *)
(* characters of the table are written "CENT" and "NOT"); a Rust String is *)
(* a sequence of chars; Option<T> is a sequence of length at most one      *)
(* (None == <<>>, Some(x) == <<x>>); Result<T, E> is a record with an      *)
(* `ok` field.                                                             *)
(***************************************************************************)
EXTENDS Integers, Sequences, FiniteSets, TLC

VARIABLES
    deck,       \* the Deck under edit: [header, cards]
    other,      \* a second Deck: the argument of merge_from, the value
                \* returned by the last successful slice_indices
    last,       \* the last Deck call: its name, arguments and Result
    enc,        \* encoder harness: two input chars and their results
    pcard,      \* PunchCard harness: the card under construction
    plast,      \* PunchCard harness: the last call on pcard
    steps,      \* number of Deck calls made so far
    disk        \* the deck file: the sequence of its lines

vars == <<deck, other, last, enc, pcard, plast, steps, disk>>

None == <<>>
Some(x) == <<x>>
IsSome(o) == Len(o) = 1
Unwrap(o) == o[1]

----------------------------------------------------------------------------
(* encoding.rs                                                             *)

VALID_SET == <<
    "&", "-", "0", "1", "2", "3", "4", "5", "6", "7", "8", "9", "A", "B", "C", "D",
    "E", "F", "G", "H", "I", "J", "K", "L", "M", "N", "O", "P", "Q", "R", "/", "S",
    "T", "U", "V", "W", "X", "Y", "Z", ":", "#", "@", "'", "=", "\"", "CENT", ".", "<",
    "(", "+", "|", "!", "$", "*", ")", ";", "NOT", " ", ",", "%", "_", ">", "?"
>>

IBM029_TABLE == <<
    <<"&", <<1,0,0,0,0,0,0,0,0,0,0,0>>>>,
    <<"-", <<0,1,0,0,0,0,0,0,0,0,0,0>>>>,
    <<"0", <<0,0,1,0,0,0,0,0,0,0,0,0>>>>,
    <<"1", <<0,0,0,1,0,0,0,0,0,0,0,0>>>>,
    <<"2", <<0,0,0,0,1,0,0,0,0,0,0,0>>>>,
    <<"3", <<0,0,0,0,0,1,0,0,0,0,0,0>>>>,
    <<"4", <<0,0,0,0,0,0,1,0,0,0,0,0>>>>,
    <<"5", <<0,0,0,0,0,0,0,1,0,0,0,0>>>>,
    <<"6", <<0,0,0,0,0,0,0,0,1,0,0,0>>>>,
    <<"7", <<0,0,0,0,0,0,0,0,0,1,0,0>>>>,
    <<"8", <<0,0,0,0,0,0,0,0,0,0,1,0>>>>,
    <<"9", <<0,0,0,0,0,0,0,0,0,0,0,1>>>>,
    <<"A", <<1,0,0,1,0,0,0,0,0,0,0,0>>>>,
    <<"B", <<1,0,0,0,1,0,0,0,0,0,0,0>>>>,
    <<"C", <<1,0,0,0,0,1,0,0,0,0,0,0>>>>,
    <<"D", <<1,0,0,0,0,0,1,0,0,0,0,0>>>>,
    <<"E", <<1,0,0,0,0,0,0,1,0,0,0,0>>>>,
    <<"F", <<1,0,0,0,0,0,0,0,1,0,0,0>>>>,
    <<"G", <<1,0,0,0,0,0,0,0,0,1,0,0>>>>,
    <<"H", <<1,0,0,0,0,0,0,0,0,0,1,0>>>>,
    <<"I", <<1,0,0,0,0,0,0,0,0,0,0,1>>>>,
    <<"J", <<0,1,0,1,0,0,0,0,0,0,0,0>>>>,
    <<"K", <<0,1,0,0,1,0,0,0,0,0,0,0>>>>,
    <<"L", <<0,1,0,0,0,1,0,0,0,0,0,0>>>>,
    <<"M", <<0,1,0,0,0,0,1,0,0,0,0,0>>>>,
    <<"N", <<0,1,0,0,0,0,0,1,0,0,0,0>>>>,
    <<"O", <<0,1,0,0,0,0,0,0,1,0,0,0>>>>,
    <<"P", <<0,1,0,0,0,0,0,0,0,1,0,0>>>>,
    <<"Q", <<0,1,0,0,0,0,0,0,0,0,1,0>>>>,
    <<"R", <<0,1,0,0,0,0,0,0,0,0,0,1>>>>,
    <<"/", <<0,0,1,1,0,0,0,0,0,0,0,0>>>>,
    <<"S", <<0,0,1,0,1,0,0,0,0,0,0,0>>>>,
    <<"T", <<0,0,1,0,0,1,0,0,0,0,0,0>>>>,
    <<"U", <<0,0,1,0,0,0,1,0,0,0,0,0>>>>,
    <<"V", <<0,0,1,0,0,0,0,1,0,0,0,0>>>>,
    <<"W", <<0,0,1,0,0,0,0,0,1,0,0,0>>>>,
    <<"X", <<0,0,1,0,0,0,0,0,0,1,0,0>>>>,
    <<"Y", <<0,0,1,0,0,0,0,0,0,0,1,0>>>>,
    <<"Z", <<0,0,1,0,0,0,0,0,0,0,0,1>>>>,
    <<":", <<0,0,0,0,1,0,0,0,0,0,1,0>>>>,
    <<"#", <<0,0,0,0,0,1,0,0,0,0,1,0>>>>,
    <<"@", <<0,0,0,0,0,0,1,0,0,0,1,0>>>>,
    <<"'", <<0,0,0,0,0,0,0,1,0,0,1,0>>>>,
    <<"=", <<0,0,0,0,0,0,0,0,1,0,1,0>>>>,
    <<"\"", <<0,0,0,0,0,0,0,0,0,1,1,0>>>>,
    <<"CENT", <<1,0,0,0,1,0,0,0,0,0,1,0>>>>,
    <<".", <<1,0,0,0,0,1,0,0,0,0,1,0>>>>,
    <<"<", <<1,0,0,0,0,0,1,0,0,0,1,0>>>>,
    <<"(", <<1,0,0,0,0,0,0,1,0,0,1,0>>>>,
    <<"+", <<1,0,0,0,0,0,0,0,1,0,1,0>>>>,
    <<"|", <<1,0,0,0,0,0,0,0,0,1,1,0>>>>,
    <<"!", <<0,1,0,0,1,0,0,0,0,0,1,0>>>>,
    <<"$", <<0,1,0,0,0,1,0,0,0,0,1,0>>>>,
    <<"*", <<0,1,0,0,0,0,1,0,0,0,1,0>>>>,
    <<")", <<0,1,0,0,0,0,0,1,0,0,1,0>>>>,
    <<";", <<0,1,0,0,0,0,0,0,1,0,1,0>>>>,
    <<"NOT", <<0,1,0,0,0,0,0,0,0,1,1,0>>>>,
    <<" ", <<0,0,0,0,0,0,0,0,0,0,0,0>>>>,
    <<",", <<0,0,1,0,0,1,0,0,0,0,1,0>>>>,
    <<"%", <<0,0,1,0,0,0,1,0,0,0,1,0>>>>,
    <<"_", <<0,0,1,0,0,0,0,1,0,0,1,0>>>>,
    <<">", <<0,0,1,0,0,0,0,0,1,0,1,0>>>>,
    <<"?", <<0,0,1,0,0,0,0,0,0,1,1,0>>>>
>>

ROW_BIT_ORDER == <<11, 10, 0, 1, 2, 3, 4, 5, 6, 7, 8, 9>>

RECURSIVE Pow2(_)
Pow2(n) == IF n = 0 THEN 1 ELSE 2 * Pow2(n - 1)

\* value |= 1u16 << ROW_BIT_ORDER[idx], for every idx whose bit is '1'.
\* The twelve shifted bits are distinct, so the bitwise OR is their sum.
RECURSIVE MaskFold(_, _)
MaskFold(bits, idx) ==
    IF idx > Len(bits) THEN 0
    ELSE (IF bits[idx] = 1 THEN Pow2(ROW_BIT_ORDER[idx]) ELSE 0)
         + MaskFold(bits, idx + 1)

\* The bit string read as a binary number, most significant bit first:
\* its idx-th character (0-based) sets bit 11 - idx.
mask_from_bits_binary(bits) ==
    MaskFold([j \in 1..Len(bits) |-> bits[12 - ROW_BIT_ORDER[j]]], 1)

\* A slip in the row order: the zone-12 row is never punched.
mask_from_bits_dropRow12(bits) == MaskFold(bits, 1) % Pow2(11)

mask_from_bits(bits) == MaskFold(bits, 1)

\* Ibm029Encoder::new: a HashMap filled in table order, so that a later
\* entry for the same char replaces an earlier one.
MapKeys == {IBM029_TABLE[i][1] : i \in 1..Len(IBM029_TABLE)}

MapGet(ch) ==
    LET hits == {i \in 1..Len(IBM029_TABLE) : IBM029_TABLE[i][1] = ch}
        lastHit == CHOOSE i \in hits : \A j \in hits : j <= i
    IN  mask_from_bits(IBM029_TABLE[lastHit][2])

ASCII_LOWER == <<
    "a", "b", "c", "d", "e", "f", "g", "h", "i", "j", "k", "l", "m",
    "n", "o", "p", "q", "r", "s", "t", "u", "v", "w", "x", "y", "z"
>>

ASCII_UPPER == <<
    "A", "B", "C", "D", "E", "F", "G", "H", "I", "J", "K", "L", "M",
    "N", "O", "P", "Q", "R", "S", "T", "U", "V", "W", "X", "Y", "Z"
>>

is_ascii_lowercase(ch) == \E i \in 1..Len(ASCII_LOWER) : ASCII_LOWER[i] = ch

to_ascii_uppercase(ch) ==
    IF is_ascii_lowercase(ch)
    THEN ASCII_UPPER[CHOOSE i \in 1..Len(ASCII_LOWER) : ASCII_LOWER[i] = ch]
    ELSE ch

Ok(v) == [ok |-> TRUE, val |-> v]
Unsupported(ch) == [ok |-> FALSE, err |-> "Unsupported", ch |-> ch]

\* The case fold forgotten: the lookup uses the character as typed.
encode_char_noFold(ch) ==
    IF ch \in MapKeys THEN Ok(MapGet(ch)) ELSE Unsupported(ch)

encode_char(ch) ==
    LET up == IF is_ascii_lowercase(ch) THEN to_ascii_uppercase(ch) ELSE ch
    IN  IF up \in MapKeys THEN Ok(MapGet(up)) ELSE Unsupported(ch)

----------------------------------------------------------------------------
(* deck.rs: CardRecord, DeckHeader, Deck                                   *)

DECK_VERSION == 1
MAX_COLS == 80

OkUnit == [ok |-> TRUE]
Err(kind) == [ok |-> FALSE, err |-> kind]

ColumnRange(start, end) == [start |-> start, end |-> end]

\* while buffer.len() < MAX_COLS { buffer.push_back(' ') }
PadToMaxCols(buffer) ==
    IF Len(buffer) < MAX_COLS
    THEN buffer \o [i \in 1..(MAX_COLS - Len(buffer)) |-> " "]
    ELSE buffer

\* An over-long text cut to 80 columns instead of being refused.
normalize_card_text_truncate(text) ==
    IF Len(text) > MAX_COLS
    THEN Ok(SubSeq(text, 1, MAX_COLS))
    ELSE Ok(PadToMaxCols(text))

\* The padding left out: a short text is stored as typed.
normalize_card_text_noPad(text) ==
    IF Len(text) > MAX_COLS
    THEN [ok |-> FALSE, err |-> "TextTooLong", got |-> Len(text)]
    ELSE Ok(text)

normalize_card_text(text) ==
    IF Len(text) > MAX_COLS
    THEN [ok |-> FALSE, err |-> "TextTooLong", got |-> Len(text)]
    ELSE Ok(PadToMaxCols(text))

CardMeta_default == [color |-> None, note |-> None]

CardRecord_from_text(text, encoding, card_type) ==
    LET normalized == normalize_card_text(text)
    IN  IF ~normalized.ok THEN normalized
        ELSE Ok([text           |-> Some(normalized.val),
                 punches        |-> None,
                 encoding       |-> encoding,
                 seq            |-> None,
                 card_type      |-> card_type,
                 protected_cols |-> <<>>,
                 meta           |-> CardMeta_default])

DeckHeader_new(language, template, protected_cols, now) ==
    [version        |-> DECK_VERSION,
     created_at     |-> now,
     language       |-> language,
     template       |-> template,
     protected_cols |-> protected_cols,
     readonly       |-> FALSE,
     history        |-> <<>>]

AuditEvent_new(action, actor, now) ==
    [timestamp |-> now, actor |-> actor, action |-> action]

Deck_new(header) == [header |-> header, cards |-> <<>>, path |-> None]

\* A call on &mut self that can fail: the Result and the deck it leaves.
Returned(res, self) == [res |-> res, self |-> self]

\* The protected columns in the order enforce_protection visits them:
\* range by range, each from start to end.
RECURSIVE ColumnsOf(_, _)
ColumnsOf(ranges, k) ==
    IF k > Len(ranges) THEN <<>>
    ELSE [i \in 1..(IF ranges[k].end >= ranges[k].start
                    THEN ranges[k].end - ranges[k].start + 1 ELSE 0)
            |-> ranges[k].start + i - 1]
         \o ColumnsOf(ranges, k + 1)

\* One iteration of the inner loop; col is 1-based, idx = col - 1.
CheckColumn(col, new_text, old_text) ==
    IF col > Len(new_text)
    THEN [ok |-> FALSE, err |-> "TextShorter", col |-> col]
    ELSE IF IsSome(old_text)
    THEN IF col > Len(Unwrap(old_text))
         THEN [ok |-> FALSE, err |-> "TextShorter", col |-> col]
         ELSE IF new_text[col] # Unwrap(old_text)[col]
         THEN [ok |-> FALSE, err |-> "ProtectedChange", col |-> col,
               old |-> Unwrap(old_text)[col], new |-> new_text[col]]
         ELSE OkUnit
    ELSE IF new_text[col] # " "
    THEN [ok |-> FALSE, err |-> "ProtectedNew", col |-> col]
    ELSE OkUnit

RECURSIVE ScanColumns(_, _, _, _)
ScanColumns(cols, k, new_text, old_text) ==
    IF k > Len(cols) THEN OkUnit
    ELSE LET r == CheckColumn(cols[k], new_text, old_text)
         IN  IF r.ok THEN ScanColumns(cols, k + 1, new_text, old_text)
             ELSE r

\* The guard switched off: every card passes.
enforce_protection_off(self, original, updated) == OkUnit

\* A replacement checked like a new card: against blanks, not against the
\* previous occupant.
enforce_protection_blankOnly(self, original, updated) ==
    IF self.header.protected_cols = <<>> THEN OkUnit
    ELSE IF ~IsSome(updated.text) THEN Err("NoText")
    ELSE ScanColumns(ColumnsOf(self.header.protected_cols, 1),
                     1, Unwrap(updated.text), None)

enforce_protection(self, original, updated) ==
    IF self.header.protected_cols = <<>> THEN OkUnit
    ELSE IF ~IsSome(updated.text) THEN Err("NoText")
    ELSE LET new_text == Unwrap(updated.text)
             old_text == IF IsSome(original) THEN Unwrap(original).text
                         ELSE None
         IN  ScanColumns(ColumnsOf(self.header.protected_cols, 1),
                         1, new_text, old_text)

IndexOutOfRange(index, len) ==
    [ok |-> FALSE, err |-> "IndexOutOfRange", index |-> index, len |-> len]

\* The push without the protection check.
append_card_unchecked(self, card) ==
    Returned(OkUnit, [self EXCEPT !.cards = Append(@, card)])

append_card(self, card) ==
    LET r == enforce_protection(self, None, card)
    IN  IF ~r.ok THEN Returned(r, self)
        ELSE Returned(OkUnit, [self EXCEPT !.cards = Append(@, card)])

\* Vec::insert(index, card), index 0-based.
VecInsert(v, index, x) ==
    SubSeq(v, 1, index) \o <<x>> \o SubSeq(v, index + 1, Len(v))

\* The bound of replace_card used for insert_card: no insert at the end.
insert_card_strict(self, index, card) ==
    IF index >= Len(self.cards)
    THEN Returned(IndexOutOfRange(index, Len(self.cards)), self)
    ELSE LET r == enforce_protection(self, None, card)
         IN  IF ~r.ok THEN Returned(r, self)
             ELSE Returned(OkUnit,
                           [self EXCEPT !.cards = VecInsert(@, index, card)])

insert_card(self, index, card) ==
    IF index > Len(self.cards)
    THEN Returned(IndexOutOfRange(index, Len(self.cards)), self)
    ELSE LET r == enforce_protection(self, None, card)
         IN  IF ~r.ok THEN Returned(r, self)
             ELSE Returned(OkUnit,
                           [self EXCEPT !.cards = VecInsert(@, index, card)])

replace_card(self, index, card) ==
    IF index >= Len(self.cards)
    THEN Returned(IndexOutOfRange(index, Len(self.cards)), self)
    ELSE LET original == self.cards[index + 1]
             r == enforce_protection(self, Some(original), card)
         IN  IF ~r.ok THEN Returned(r, self)
             ELSE Returned(OkUnit,
                           [self EXCEPT !.cards[index + 1] = card])

DIGITS == <<"0", "1", "2", "3", "4", "5", "6", "7", "8", "9">>

\* The decimal digits of a usize, most significant first.
RECURSIVE ToDecimal(_)
ToDecimal(n) ==
    IF n < 10 THEN <<DIGITS[n + 1]>>
    ELSE Append(ToDecimal(n \div 10), DIGITS[(n % 10) + 1])

Fill(ch, n) == [i \in 1..n |-> ch]

\* format!("{:>width$}", value): right-aligned, padded on the left with
\* spaces, never truncated.
FormatRight(value, width) ==
    LET d == ToDecimal(value)
    IN  IF Len(d) >= width THEN d ELSE Fill(" ", width - Len(d)) \o d

\* format!("{:0>width$}", value): the same, padded with zeros.
FormatZero(value, width) ==
    LET d == ToDecimal(value)
    IN  IF Len(d) >= width THEN d ELSE Fill("0", width - Len(d)) \o d

SaturatingSub(a, b) == IF a >= b THEN a - b ELSE 0

\* for (offset, ch) in seq_str.chars().enumerate(): chars[start_idx + offset]
\* = ch when that index exists.  chars is 1-based here, idx 0-based.
OverwriteAt(chars, start_idx, seq_str) ==
    [i \in 1..Len(chars) |->
        IF i - 1 >= start_idx /\ i - 1 - start_idx < Len(seq_str)
        THEN seq_str[i - start_idx]
        ELSE chars[i]]

\* The field zero-filled, as a listing tool would print it.
NumberCard_zeroPad(card, value) ==
    LET numbered == [card EXCEPT !.seq = Some(value)]
    IN  IF ~IsSome(card.text) THEN numbered
        ELSE LET chars == PadToMaxCols(Unwrap(card.text))
                 seq_str == FormatZero(value, 8)
                 start_idx == SaturatingSub(MAX_COLS, Len(seq_str))
             IN  [numbered EXCEPT
                    !.text = Some(OverwriteAt(chars, start_idx, seq_str))]

\* The body of the loop of number_sequence for one card.
NumberCard(card, value) ==
    LET numbered == [card EXCEPT !.seq = Some(value)]
    IN  IF ~IsSome(card.text) THEN numbered
        ELSE LET chars == PadToMaxCols(Unwrap(card.text))
                 seq_str == FormatRight(value, 8)
                 start_idx == SaturatingSub(MAX_COLS, Len(seq_str))
             IN  [numbered EXCEPT
                    !.text = Some(OverwriteAt(chars, start_idx, seq_str))]

RECURSIVE NumberFrom(_, _, _, _)
NumberFrom(cards, k, value, step) ==
    IF k > Len(cards) THEN <<>>
    ELSE <<NumberCard(cards[k], value)>>
         \o NumberFrom(cards, k + 1, value + step, step)

\* value += step forgotten: every card gets the start value.
number_sequence_noStep(self, start, step) ==
    [self EXCEPT !.cards = NumberFrom(@, 1, start, 0)]

number_sequence(self, start, step) ==
    [self EXCEPT !.cards = NumberFrom(@, 1, start, step)]

\* sb.cmp(&sa) in place of sa.cmp(&sb): the larger number comes first.
SeqCmp_descending(a, b) ==
    IF IsSome(a.seq) /\ IsSome(b.seq)
    THEN IF Unwrap(a.seq) > Unwrap(b.seq) THEN "Less"
         ELSE IF Unwrap(a.seq) < Unwrap(b.seq) THEN "Greater" ELSE "Equal"
    ELSE IF IsSome(a.seq) THEN "Less"
    ELSE IF IsSome(b.seq) THEN "Greater"
    ELSE "Equal"

\* The comparator of sort_by_sequence.
SeqCmp(a, b) ==
    IF IsSome(a.seq) /\ IsSome(b.seq)
    THEN IF Unwrap(a.seq) < Unwrap(b.seq) THEN "Less"
         ELSE IF Unwrap(a.seq) > Unwrap(b.seq) THEN "Greater" ELSE "Equal"
    ELSE IF IsSome(a.seq) THEN "Less"
    ELSE IF IsSome(b.seq) THEN "Greater"
    ELSE "Equal"

\* slice::sort_by is a stable sort: x goes behind every element that does
\* not compare Greater than it.
RECURSIVE StableInsert(_, _)
StableInsert(sorted, x) ==
    IF sorted = <<>> THEN <<x>>
    ELSE IF SeqCmp(sorted[Len(sorted)], x) = "Greater"
    THEN Append(StableInsert(SubSeq(sorted, 1, Len(sorted) - 1), x),
                sorted[Len(sorted)])
    ELSE Append(sorted, x)

RECURSIVE StableSort(_, _)
StableSort(v, k) ==
    IF k = 0 THEN <<>> ELSE StableInsert(StableSort(v, k - 1), v[k])

Reversed(v) == [i \in 1..Len(v) |-> v[Len(v) + 1 - i]]

\* sort_unstable_by in place of sort_by: cards that compare Equal may
\* change places (here they come out in reverse).
sort_by_sequence_unstable(self) ==
    [self EXCEPT !.cards = StableSort(Reversed(@), Len(@))]

sort_by_sequence(self) ==
    [self EXCEPT !.cards = StableSort(@, Len(@))]

\* The event put in front of the history instead of behind it.
log_action_front(self, action, actor, now) ==
    [self EXCEPT !.header.history = <<AuditEvent_new(action, actor, now)>> \o @]

log_action(self, action, actor, now) ==
    [self EXCEPT !.header.history = Append(@, AuditEvent_new(action, actor, now))]

IncompatibleMerge(what) ==
    [ok |-> FALSE, err |-> "IncompatibleMerge", what |-> what]

\* The incoming cards and events put in front of the deck's own.
merge_from_front(self, src) ==
    IF self.header.protected_cols # src.header.protected_cols
    THEN Returned(IncompatibleMerge("protected_cols"), self)
    ELSE IF self.header.template # src.header.template
    THEN Returned(IncompatibleMerge("template"), self)
    ELSE IF self.header.language # src.header.language
    THEN Returned(IncompatibleMerge("language"), self)
    ELSE Returned(OkUnit,
                  [self EXCEPT !.cards = src.cards \o @,
                               !.header.history = src.header.history \o @])

\* The language check left out.
merge_from_noLanguage(self, src) ==
    IF self.header.protected_cols # src.header.protected_cols
    THEN Returned(IncompatibleMerge("protected_cols"), self)
    ELSE IF self.header.template # src.header.template
    THEN Returned(IncompatibleMerge("template"), self)
    ELSE Returned(OkUnit,
                  [self EXCEPT !.cards = @ \o src.cards,
                               !.header.history = @ \o src.header.history])

\* The cards moved over before the headers are compared.
merge_from_early(self, src) ==
    IF self.header.protected_cols # src.header.protected_cols
    THEN Returned(IncompatibleMerge("protected_cols"),
                  [self EXCEPT !.cards = @ \o src.cards])
    ELSE IF self.header.template # src.header.template
    THEN Returned(IncompatibleMerge("template"),
                  [self EXCEPT !.cards = @ \o src.cards])
    ELSE IF self.header.language # src.header.language
    THEN Returned(IncompatibleMerge("language"),
                  [self EXCEPT !.cards = @ \o src.cards])
    ELSE Returned(OkUnit,
                  [self EXCEPT !.cards = @ \o src.cards,
                               !.header.history = @ \o src.header.history])

merge_from(self, src) ==
    IF self.header.protected_cols # src.header.protected_cols
    THEN Returned(IncompatibleMerge("protected_cols"), self)
    ELSE IF self.header.template # src.header.template
    THEN Returned(IncompatibleMerge("template"), self)
    ELSE IF self.header.language # src.header.language
    THEN Returned(IncompatibleMerge("language"), self)
    ELSE Returned(OkUnit,
                  [self EXCEPT !.cards = @ \o src.cards,
                               !.header.history = @ \o src.header.history])

\* The loop of slice_indices: the first index out of bounds ends it.
RECURSIVE SliceFrom(_, _, _, _)
SliceFrom(self, indices, k, new) ==
    IF k > Len(indices) THEN Ok(new)
    ELSE IF indices[k] >= Len(self.cards)
    THEN IndexOutOfRange(indices[k], Len(self.cards))
    ELSE SliceFrom(self, indices, k + 1,
                   [new EXCEPT !.cards = Append(@, self.cards[indices[k] + 1])])

\* The indices put in ascending order before the cards are picked.
RECURSIVE Ascending(_, _)
Ascending(indices, k) ==
    IF k = 0 THEN <<>>
    ELSE LET rest == Ascending(indices, k - 1)
             below == SelectSeq(rest, LAMBDA i : i <= indices[k])
             above == SelectSeq(rest, LAMBDA i : i > indices[k])
         IN  below \o <<indices[k]>> \o above

slice_indices_sorted(self, indices) ==
    SliceFrom(self, Ascending(indices, Len(indices)), 1, Deck_new(self.header))

slice_indices(self, indices) ==
    SliceFrom(self, indices, 1, Deck_new(self.header))

----------------------------------------------------------------------------
(* deck.rs: the deck file.  DeckLine and the serde derives of the records  *)
(*                                                                         *)
(* A JSON value is a record tagged by its type; an object keeps its        *)
(* members in the order written.  A String field whose characters the      *)
(* model does not look into (language, actor, ...) is a string of one      *)
(* symbol.  An instant n of the clock is written as the string "Tn", which *)
(* stands for chrono's RFC 3339 form.                                      *)

JNull == [t |-> "null"]
JBool(b) == [t |-> "bool", b |-> b]
JNum(n) == [t |-> "num", n |-> n]
JStr(s) == [t |-> "str", s |-> s]
JArr(v) == [t |-> "arr", v |-> v]
JObj(m) == [t |-> "obj", m |-> m]

JsonError(what) == [ok |-> FALSE, err |-> "Json", what |-> what]

ENCODING_KINDS == {"hollerith", "ascii", "ebcdic"}
CARD_TYPES == {"code", "data", "jcl", "comment", "separator", "patch"}

Rfc3339(n) == <<"T">> \o ToDecimal(n)

IsDigit(ch) == \E d \in 1..10 : DIGITS[d] = ch
DigitValue(ch) == (CHOOSE d \in 1..10 : DIGITS[d] = ch) - 1

RECURSIVE ParseDecimal(_, _)
ParseDecimal(s, k) ==
    IF k = 0 THEN 0 ELSE 10 * ParseDecimal(s, k - 1) + DigitValue(s[k])

ser_String(s) == JStr(s)
ser_Symbol(s) == JStr(<<s>>)
ser_usize(n) == JNum(n)
ser_DateTime(n) == JStr(Rfc3339(n))

ser_OptionString(o) == IF IsSome(o) THEN ser_String(Unwrap(o)) ELSE JNull
ser_OptionSymbol(o) == IF IsSome(o) THEN ser_Symbol(Unwrap(o)) ELSE JNull
ser_OptionUsize(o) == IF IsSome(o) THEN ser_usize(Unwrap(o)) ELSE JNull

ser_ColumnRange(r) ==
    JObj(<<<<"start", JNum(r.start)>>, <<"end", JNum(r.end)>>>>)

ser_ColumnRanges(v) == JArr([i \in 1..Len(v) |-> ser_ColumnRange(v[i])])

\* color and note are left out when they are None.
ser_CardMeta(meta) ==
    JObj((IF IsSome(meta.color)
          THEN <<<<"color", ser_String(Unwrap(meta.color))>>>> ELSE <<>>)
         \o (IF IsSome(meta.note)
             THEN <<<<"note", ser_String(Unwrap(meta.note))>>>> ELSE <<>>))

ser_AuditEvent(e) ==
    JObj(<<<<"timestamp", ser_DateTime(e.timestamp)>>,
           <<"actor", ser_Symbol(e.actor)>>,
           <<"action", ser_Symbol(e.action)>>>>)

ser_History(v) == JArr([i \in 1..Len(v) |-> ser_AuditEvent(v[i])])

\* DeckLine::Header(header): the tag first, then the fields as declared.
ser_Header(header) ==
    JObj(<<<<"kind", ser_Symbol("header")>>,
           <<"version", JNum(header.version)>>,
           <<"created_at", ser_DateTime(header.created_at)>>,
           <<"language", ser_OptionSymbol(header.language)>>,
           <<"template", ser_OptionSymbol(header.template)>>,
           <<"protected_cols", ser_ColumnRanges(header.protected_cols)>>,
           <<"readonly", JBool(header.readonly)>>,
           <<"history", ser_History(header.history)>>>>)

\* DeckLine::Card(card).
ser_Card(card) ==
    JObj(<<<<"kind", ser_Symbol("card")>>,
           <<"text", ser_OptionString(card.text)>>,
           <<"punches", ser_OptionString(card.punches)>>,
           <<"encoding", ser_Symbol(card.encoding)>>,
           <<"seq", ser_OptionUsize(card.seq)>>,
           <<"card_type", ser_Symbol(card.card_type)>>,
           <<"protected_cols", ser_ColumnRanges(card.protected_cols)>>,
           <<"meta", ser_CardMeta(card.meta)>>>>)

\* The members of an object under a key, and the object without them.
JCount(obj, key) ==
    Cardinality({i \in 1..Len(obj.m) : obj.m[i][1] = key})
JGet(obj, key) ==
    obj.m[CHOOSE i \in 1..Len(obj.m) : obj.m[i][1] = key][2]
JWithout(obj, key) == JObj(SelectSeq(obj.m, LAMBDA member : member[1] # key))

Missing == JsonError("missing field")

\* The value of one field of a derived Deserialize: a key met twice is an
\* error, unknown keys are passed over.
Field(obj, key) ==
    IF JCount(obj, key) > 1 THEN JsonError("duplicate field")
    ELSE IF JCount(obj, key) = 0 THEN Missing
    ELSE Ok(JGet(obj, key))

\* #[serde(default)], and an Option field: r is what the key's value
\* deserializes to; without the key the field takes the default.
OrDefault(r, obj, key, default) ==
    IF JCount(obj, key) = 0 THEN Ok(default) ELSE r

\* The first error among the results of the fields, if any.
FirstError(results) ==
    IF \A i \in 1..Len(results) : results[i].ok THEN OkUnit
    ELSE results[CHOOSE i \in 1..Len(results) :
                    /\ ~results[i].ok
                    /\ \A j \in 1..(i - 1) : results[j].ok]

\* Vec<T> from the results of its elements.
Collect(results) ==
    IF \A i \in 1..Len(results) : results[i].ok
    THEN Ok([i \in 1..Len(results) |-> results[i].val])
    ELSE FirstError(results)

SomeOf(r) == IF r.ok THEN Ok(Some(r.val)) ELSE r

\* The deserializers take the Result of the field lookup and hand an
\* error on.
de_String(f) ==
    IF ~f.ok THEN f
    ELSE IF f.val.t = "str" THEN Ok(f.val.s) ELSE JsonError("invalid type")
de_Symbol(f) ==
    IF ~f.ok THEN f
    ELSE IF f.val.t = "str" /\ Len(f.val.s) = 1 THEN Ok(f.val.s[1])
    ELSE JsonError("invalid type")
de_usize(f) ==
    IF ~f.ok THEN f
    ELSE IF f.val.t = "num" /\ f.val.n >= 0 THEN Ok(f.val.n)
    ELSE JsonError("invalid type")
de_u8(f) ==
    IF ~f.ok THEN f
    ELSE IF f.val.t = "num" /\ f.val.n \in 0..255 THEN Ok(f.val.n)
    ELSE JsonError("invalid type")
de_bool(f) ==
    IF ~f.ok THEN f
    ELSE IF f.val.t = "bool" THEN Ok(f.val.b) ELSE JsonError("invalid type")
de_DateTime(f) ==
    IF ~f.ok THEN f
    ELSE IF /\ f.val.t = "str"
            /\ Len(f.val.s) >= 2
            /\ f.val.s[1] = "T"
            /\ \A k \in 2..Len(f.val.s) : IsDigit(f.val.s[k])
    THEN Ok(ParseDecimal(Tail(f.val.s), Len(f.val.s) - 1))
    ELSE JsonError("invalid date")
de_EncodingKind(f) ==
    IF ~f.ok THEN f
    ELSE IF /\ f.val.t = "str"
            /\ Len(f.val.s) = 1
            /\ f.val.s[1] \in ENCODING_KINDS
    THEN Ok(f.val.s[1])
    ELSE JsonError("unknown variant")
de_CardType(f) ==
    IF ~f.ok THEN f
    ELSE IF /\ f.val.t = "str"
            /\ Len(f.val.s) = 1
            /\ f.val.s[1] \in CARD_TYPES
    THEN Ok(f.val.s[1])
    ELSE JsonError("unknown variant")

de_OptionString(f) ==
    IF ~f.ok THEN f
    ELSE IF f.val.t = "null" THEN Ok(None) ELSE SomeOf(de_String(f))
de_OptionSymbol(f) ==
    IF ~f.ok THEN f
    ELSE IF f.val.t = "null" THEN Ok(None) ELSE SomeOf(de_Symbol(f))
de_OptionUsize(f) ==
    IF ~f.ok THEN f
    ELSE IF f.val.t = "null" THEN Ok(None) ELSE SomeOf(de_usize(f))

BuildColumnRange(start, end) ==
    IF ~start.ok THEN start
    ELSE IF ~end.ok THEN end
    ELSE Ok(ColumnRange(start.val, end.val))

\* ColumnRange::new is not called: no bounds are checked on reading.
de_ColumnRange(f) ==
    IF ~f.ok THEN f
    ELSE IF f.val.t # "obj" THEN JsonError("invalid type")
    ELSE BuildColumnRange(de_usize(Field(f.val, "start")),
                          de_usize(Field(f.val, "end")))

de_ColumnRanges(f) ==
    IF ~f.ok THEN f
    ELSE IF f.val.t # "arr" THEN JsonError("invalid type")
    ELSE Collect([i \in 1..Len(f.val.v) |-> de_ColumnRange(Ok(f.val.v[i]))])

BuildCardMeta(color, note) ==
    IF ~color.ok THEN color
    ELSE IF ~note.ok THEN note
    ELSE Ok([color |-> color.val, note |-> note.val])

\* A missing Option field is None.
de_CardMeta(f) ==
    IF ~f.ok THEN f
    ELSE IF f.val.t # "obj" THEN JsonError("invalid type")
    ELSE BuildCardMeta(
            OrDefault(de_OptionString(Field(f.val, "color")),
                      f.val, "color", None),
            OrDefault(de_OptionString(Field(f.val, "note")),
                      f.val, "note", None))

BuildAuditEvent(timestamp, actor, action) ==
    LET bad == FirstError(<<timestamp, actor, action>>)
    IN  IF ~bad.ok THEN bad
        ELSE Ok([timestamp |-> timestamp.val, actor |-> actor.val,
                 action |-> action.val])

de_AuditEvent(f) ==
    IF ~f.ok THEN f
    ELSE IF f.val.t # "obj" THEN JsonError("invalid type")
    ELSE BuildAuditEvent(de_DateTime(Field(f.val, "timestamp")),
                         de_Symbol(Field(f.val, "actor")),
                         de_Symbol(Field(f.val, "action")))

de_History(f) ==
    IF ~f.ok THEN f
    ELSE IF f.val.t # "arr" THEN JsonError("invalid type")
    ELSE Collect([i \in 1..Len(f.val.v) |-> de_AuditEvent(Ok(f.val.v[i]))])

BuildDeckHeader(version, created_at, language, template, protected_cols, readonly, history) ==
    LET bad == FirstError(<<version, created_at, language, template,
                            protected_cols, readonly, history>>)
    IN  IF ~bad.ok THEN bad
        ELSE Ok([version        |-> version.val,
                 created_at     |-> created_at.val,
                 language       |-> language.val,
                 template       |-> template.val,
                 protected_cols |-> protected_cols.val,
                 readonly       |-> readonly.val,
                 history        |-> history.val])

\* j holds the members of the line other than the tag.
de_DeckHeader(j) ==
    BuildDeckHeader(
        de_u8(Field(j, "version")),
        de_DateTime(Field(j, "created_at")),
        OrDefault(de_OptionSymbol(Field(j, "language")), j, "language", None),
        OrDefault(de_OptionSymbol(Field(j, "template")), j, "template", None),
        OrDefault(de_ColumnRanges(Field(j, "protected_cols")),
                  j, "protected_cols", <<>>),
        OrDefault(de_bool(Field(j, "readonly")), j, "readonly", FALSE),
        OrDefault(de_History(Field(j, "history")), j, "history", <<>>))

BuildCardRecord(text, punches, encoding, seq, card_type, protected_cols, meta) ==
    LET bad == FirstError(<<text, punches, encoding, seq, card_type,
                            protected_cols, meta>>)
    IN  IF ~bad.ok THEN bad
        ELSE Ok([text           |-> text.val,
                 punches        |-> punches.val,
                 encoding       |-> encoding.val,
                 seq            |-> seq.val,
                 card_type      |-> card_type.val,
                 protected_cols |-> protected_cols.val,
                 meta           |-> meta.val])

\* The seq field forgotten by the reader: every card comes back unnumbered.
de_CardRecord_noSeq(j) ==
    BuildCardRecord(
        OrDefault(de_OptionString(Field(j, "text")), j, "text", None),
        OrDefault(de_OptionString(Field(j, "punches")), j, "punches", None),
        OrDefault(de_EncodingKind(Field(j, "encoding")),
                  j, "encoding", "hollerith"),
        Ok(None),
        OrDefault(de_CardType(Field(j, "card_type")), j, "card_type", "code"),
        OrDefault(de_ColumnRanges(Field(j, "protected_cols")),
                  j, "protected_cols", <<>>),
        OrDefault(de_CardMeta(Field(j, "meta")), j, "meta", CardMeta_default))

de_CardRecord(j) ==
    BuildCardRecord(
        OrDefault(de_OptionString(Field(j, "text")), j, "text", None),
        OrDefault(de_OptionString(Field(j, "punches")), j, "punches", None),
        OrDefault(de_EncodingKind(Field(j, "encoding")),
                  j, "encoding", "hollerith"),
        OrDefault(de_OptionUsize(Field(j, "seq")), j, "seq", None),
        OrDefault(de_CardType(Field(j, "card_type")), j, "card_type", "code"),
        OrDefault(de_ColumnRanges(Field(j, "protected_cols")),
                  j, "protected_cols", <<>>),
        OrDefault(de_CardMeta(Field(j, "meta")), j, "meta", CardMeta_default))

AsHeader(header) ==
    IF ~header.ok THEN header
    ELSE Ok([kind |-> "header", header |-> header.val])

AsCard(card) ==
    IF ~card.ok THEN card ELSE Ok([kind |-> "card", card |-> card.val])

\* The variant named by the tag, read from the other members.
Variant(kind, content) ==
    IF ~kind.ok THEN kind
    ELSE IF kind.val = "header" THEN AsHeader(de_DeckHeader(content))
    ELSE IF kind.val = "card" THEN AsCard(de_CardRecord(content))
    ELSE JsonError("unknown variant")

\* #[serde(tag = "kind", rename_all = "snake_case")] enum DeckLine.
de_DeckLine(j) ==
    IF j.t # "obj" THEN JsonError("invalid type")
    ELSE Variant(de_Symbol(Field(j, "kind")), JWithout(j, "kind"))

----------------------------------------------------------------------------
(* deck.rs: Deck::save, Deck::load, Deck::hash                             *)
(*                                                                         *)
(* A file is the sequence of its lines.  A line is a sequence of tokens:   *)
(* a white-space character, a complete JSON text (held as the value it     *)
(* denotes), or a character of anything else.                              *)

Ws(c) == [k |-> "ws", c |-> c]
Doc(j) == [k |-> "json", j |-> j]
Junk(c) == [k |-> "junk", c |-> c]

\* The white space JSON allows around a value; str::trim also removes
\* other Unicode white space, such as the no-break space.
JSON_WS == {" ", "\t", "\r"}

IsJsonWs(token) == token.k = "ws" /\ token.c \in JSON_WS

\* raw.trim().is_empty()
IsBlank(raw) == \A i \in 1..Len(raw) : raw[i].k = "ws"

\* serde_json::from_str::<DeckLine>(raw): one JSON value, white space
\* around it allowed, nothing else.
from_str(raw) ==
    LET inner == {i \in 1..Len(raw) : ~IsJsonWs(raw[i])}
    IN  IF Cardinality(inner) = 1
           /\ raw[CHOOSE i \in inner : TRUE].k = "json"
        THEN de_DeckLine(raw[CHOOSE i \in inner : TRUE].j)
        ELSE JsonError("syntax")

LoadError(what, line) == [ok |-> FALSE, err |-> what, line |-> line]

\* The loop over the lines after the first; k is the line number.
RECURSIVE LoadCards(_, _, _)
RECURSIVE TakeLine(_, _, _, _)

\* The match on a line that was not blank.
TakeLine(line, lines, k, cards) ==
    IF ~line.ok THEN LoadError("CardParse", k)
    ELSE IF line.val.kind = "header" THEN LoadError("MultipleHeaders", k)
    ELSE LoadCards(lines, k + 1, Append(cards, line.val.card))

LoadCards(lines, k, cards) ==
    IF k > Len(lines) THEN Ok(cards)
    ELSE IF IsBlank(lines[k]) THEN LoadCards(lines, k + 1, cards)
    ELSE TakeLine(from_str(lines[k]), lines, k, cards)

\* Ok(Self { header, cards, path }) when every line was taken.
Loaded(header, cards, path) ==
    IF ~cards.ok THEN cards
    ELSE Ok([header |-> header, cards |-> cards.val, path |-> Some(path)])

\* The match on the first line, then the loop.
LoadFrom(deck_line, lines, path) ==
    IF ~deck_line.ok THEN LoadError("HeaderParse", 1)
    ELSE IF deck_line.val.kind = "card" THEN LoadError("ExpectedHeader", 1)
    ELSE Loaded(deck_line.val.header, LoadCards(lines, 2, <<>>), path)

\* A second header taken for the header of the deck instead of refused.
load_lastHeader(lines, path) ==
    LET records == [k \in 1..Len(lines) |-> from_str(lines[k])]
        headers == {k \in 1..Len(lines) :
                       records[k].ok /\ records[k].val.kind = "header"}
        cardAt == {k \in 1..Len(lines) :
                       records[k].ok /\ records[k].val.kind = "card"}
        bad == {k \in 2..Len(lines) : ~IsBlank(lines[k]) /\ ~records[k].ok}
    IN  IF lines = <<>> THEN LoadError("Empty", 0)
        ELSE IF ~records[1].ok THEN LoadError("HeaderParse", 1)
        ELSE IF records[1].val.kind = "card"
        THEN LoadError("ExpectedHeader", 1)
        ELSE IF bad # {} THEN LoadError("CardParse", CHOOSE k \in bad : TRUE)
        ELSE Ok([header |-> records[CHOOSE k \in headers :
                                       \A h \in headers : h <= k].val.header,
                 cards  |-> [i \in 1..Cardinality(cardAt) |->
                               records[CHOOSE k \in cardAt :
                                  Cardinality({c \in cardAt : c <= k}) = i
                                      ].val.card],
                 path   |-> Some(path)])

load(lines, path) ==
    IF lines = <<>> THEN LoadError("Empty", 0)
    ELSE LoadFrom(from_str(lines[1]), lines, path)

\* The lines save writes: the header, then one line for each card.
SaveLines(self) ==
    <<<<Doc(ser_Header(self.header))>>>>
    \o [i \in 1..Len(self.cards) |-> <<Doc(ser_Card(self.cards[i]))>>]

\* save leaves the file written and the path remembered in the deck.
save(self, path) ==
    [res |-> OkUnit, self |-> [self EXCEPT !.path = Some(path)],
     file |-> SaveLines(self)]

\* serde_json::to_writer: the compact text of a value.  A string is
\* written between quotes, with the quote and the backslash escaped.
RECURSIVE Escaped(_, _)
Escaped(s, k) ==
    IF k > Len(s) THEN <<>>
    ELSE (IF s[k] = "\"" THEN <<"\\", "\"">>
          ELSE IF s[k] = "\\" THEN <<"\\", "\\">>
          ELSE <<s[k]>>)
         \o Escaped(s, k + 1)

RECURSIVE to_writer(_)
RECURSIVE WriteItems(_, _)
RECURSIVE WriteMembers(_, _)

WriteItems(v, k) ==
    IF k > Len(v) THEN <<>>
    ELSE (IF k > 1 THEN <<",">> ELSE <<>>)
         \o to_writer(v[k]) \o WriteItems(v, k + 1)

WriteMembers(m, k) ==
    IF k > Len(m) THEN <<>>
    ELSE (IF k > 1 THEN <<",">> ELSE <<>>)
         \o <<"\"", m[k][1], "\"", ":">>
         \o to_writer(m[k][2]) \o WriteMembers(m, k + 1)

to_writer(j) ==
    IF j.t = "null" THEN <<"null">>
    ELSE IF j.t = "bool" THEN (IF j.b THEN <<"true">> ELSE <<"false">>)
    ELSE IF j.t = "num" THEN ToDecimal(j.n)
    ELSE IF j.t = "str" THEN <<"\"">> \o Escaped(j.s, 1) \o <<"\"">>
    ELSE IF j.t = "arr" THEN <<"[">> \o WriteItems(j.v, 1) \o <<"]">>
    ELSE <<"{">> \o WriteMembers(j.m, 1) \o <<"}">>

\* SHA-256 is taken to be free of collisions: a digest is stood for by the
\* bytes that were hashed.
Sha256(bytes) == bytes

RECURSIVE HashCards(_, _)
HashCards(cards, k) ==
    IF k > Len(cards) THEN <<>>
    ELSE to_writer(ser_Card(cards[k])) \o HashCards(cards, k + 1)

\* The header left out of the digest.
hash_cardsOnly(self) == Ok(Sha256(HashCards(self.cards, 1)))

hash(self) ==
    Ok(Sha256(to_writer(ser_Header(self.header)) \o HashCards(self.cards, 1)))

----------------------------------------------------------------------------
(* punchcards.rs: PunchCard                                                *)

COLS == 80

Take(s, n) == SubSeq(s, 1, IF Len(s) < n THEN Len(s) ELSE n)

PunchCard_new == [cols |-> [i \in 1..COLS |-> 0], raw_text |-> <<>>]

\* The first character of s[k..] that the encoder rejects, if any.
FirstUnsupported(s, k) ==
    LET bad == {i \in k..Len(s) : ~encode_char(s[i]).ok}
    IN  IF bad = {} THEN OkUnit
        ELSE encode_char(s[CHOOSE i \in bad : \A j \in bad : i <= j])

\* The text kept whole, only the masks cut at COLS.
PunchCard_from_str_noTake(s) ==
    LET taken == Take(s, COLS)
        bad == FirstUnsupported(taken, 1)
    IN  IF ~bad.ok THEN bad
        ELSE Ok([cols |-> [i \in 1..COLS |->
                              IF i <= Len(taken) THEN encode_char(taken[i]).val
                              ELSE 0],
                 raw_text |-> s])

PunchCard_from_str(s) ==
    LET taken == Take(s, COLS)
        bad == FirstUnsupported(taken, 1)
    IN  IF ~bad.ok THEN bad
        ELSE Ok([cols |-> [i \in 1..COLS |->
                              IF i <= Len(taken) THEN encode_char(taken[i]).val
                              ELSE 0],
                 raw_text |-> taken])

\* chars.resize(COLS, ' ') when chars is shorter than COLS.
ResizeToCols(chars) ==
    IF Len(chars) < COLS THEN chars \o Fill(" ", COLS - Len(chars)) ELSE chars

\* The columns (1-based) the loop of with_sequence writes: those of the
\* sequence field that hold a space.  skip is the test `chars[idx] != ' '`.
SeqTouched(chars, start, seq_str, skip) ==
    {i \in 1..Len(chars) :
        /\ i - 1 >= start
        /\ i - 1 - start < Len(seq_str)
        /\ (skip => chars[i] = " ")}

WithSequenceLoop(self, seq, skip) ==
    LET seq_str == FormatRight(seq, 9)
        start == SaturatingSub(COLS, Len(seq_str))
        chars == ResizeToCols(self.raw_text)
        touched == SeqTouched(chars, start, seq_str, skip)
        bad == {i \in touched : ~encode_char(seq_str[i - start]).ok}
    IN  IF bad # {}
        THEN encode_char(seq_str[(CHOOSE i \in bad : \A j \in bad : i <= j) - start])
        ELSE Ok([cols |-> [i \in 1..COLS |->
                              IF i \in touched
                              THEN encode_char(seq_str[i - start]).val
                              ELSE self.cols[i]],
                 raw_text |-> [i \in 1..Len(chars) |->
                              IF i \in touched THEN seq_str[i - start]
                              ELSE chars[i]]])

\* The skip of occupied columns left out: the field is always overwritten.
with_sequence_clobber(self, seq) == WithSequenceLoop(self, seq, FALSE)

with_sequence(self, seq) == WithSequenceLoop(self, seq, TRUE)

\* RenderStyle and the (mark, blank) pair that render hands to render_ascii.
RenderStyles == {"AsciiX", "Ascii01"}

ROW_LABELS == <<
    <<"1", "2">>, <<"1", "1">>, <<" ", "0">>, <<" ", "1">>, <<" ", "2">>,
    <<" ", "3">>, <<" ", "4">>, <<" ", "5">>, <<" ", "6">>, <<" ", "7">>,
    <<" ", "8">>, <<" ", "9">>
>>

\* The rows printed in bit order, row 0 first.
RowBit_lsbFirst(r) == r

\* match r { 0 => 11, 1 => 10, _ => r - 2 }, r the 0-based index of the label.
RowBit(r) == IF r = 0 THEN 11 ELSE IF r = 1 THEN 10 ELSE r - 2

\* One grid line: "{:>3} |", a cell for each of the COLS columns, "|".
RenderRow(self, r, mark, blank) ==
    <<" ">> \o ROW_LABELS[r + 1] \o <<" ", "|">>
    \o [c \in 1..COLS |->
          IF (self.cols[c] \div Pow2(RowBit(r))) % 2 = 1 THEN mark ELSE blank]
    \o <<"|">>

\* The String that render_ascii builds, as the sequence of its lines.
render_ascii(self, mark, blank) ==
    LET margin == Fill(" ", 5)
        ruler == [col \in 1..COLS |->
                    IF col % 10 = 0 THEN DIGITS[((col \div 10) % 10) + 1]
                    ELSE "."]
        separator == Fill("-", COLS)
        title == <<"I", "B", "M", " ", "5", "0", "8", "1", " ", "(", "8", "0",
                   " ", "c", "o", "l", "s", ")", " ", "[", "I", "B", "M", "0",
                   "2", "9", "]">>
        text == [i \in 1..COLS |->
                    IF i <= Len(self.raw_text) THEN self.raw_text[i] ELSE " "]
    IN  <<title, margin \o ruler, margin \o text, margin \o separator>>
        \o [r \in 1..Len(ROW_LABELS) |-> RenderRow(self, r - 1, mark, blank)]
        \o <<margin \o separator>>

render(self, style) ==
    IF style = "AsciiX" THEN render_ascii(self, "X", " ")
    ELSE render_ascii(self, "1", "0")

----------------------------------------------------------------------------
(* punchcards.rs: CardDeck                                                 *)

\* str::lines: the text cut at every "\n", a "\r" just before it dropped;
\* what follows the last "\n" is a line only if it is not empty.
RECURSIVE Lines(_, _)
Lines(text, k) ==
    IF k > Len(text) THEN <<>>
    ELSE LET e == CHOOSE i \in k..(Len(text) + 1) :
                     /\ i = Len(text) + 1 \/ text[i] = "\n"
                     /\ \A j \in k..(i - 1) : text[j] # "\n"
         IN  IF e = Len(text) + 1 THEN <<SubSeq(text, k, Len(text))>>
             ELSE IF e > k /\ text[e - 1] = "\r"
                  THEN <<SubSeq(text, k, e - 2)>> \o Lines(text, e + 1)
             ELSE <<SubSeq(text, k, e - 1)>> \o Lines(text, e + 1)

\* A full buffer is kept until the line ends, so that a line of exactly 80
\* columns is followed by a blank card.
RECURSIVE SplitLine_trailingBlank(_, _)
SplitLine_trailingBlank(line, done) ==
    IF Len(line) - done > 80
    THEN <<SubSeq(line, done + 1, done + 80)>>
         \o SplitLine_trailingBlank(line, done + 80)
    ELSE IF Len(line) - done = 80
         THEN <<SubSeq(line, done + 1, Len(line)), Fill(" ", 80)>>
    ELSE <<SubSeq(line, done + 1, Len(line))
           \o Fill(" ", 80 - (Len(line) - done))>>

\* The texts of the cards one line gives, in order, `done` characters of
\* the line being already on cards: the buffer is pushed each time it
\* reaches 80 characters; what is left at the end of the line is padded
\* with spaces; an empty line gives a blank card.
RECURSIVE SplitLine(_, _)
SplitLine(line, done) ==
    IF Len(line) - done >= 80
    THEN <<SubSeq(line, done + 1, done + 80)>> \o SplitLine(line, done + 80)
    ELSE IF Len(line) - done > 0
         THEN <<SubSeq(line, done + 1, Len(line))
                \o Fill(" ", 80 - (Len(line) - done))>>
    ELSE IF line = <<>> THEN <<Fill(" ", 80)>>
    ELSE <<>>

RECURSIVE SplitLines(_, _)
SplitLines(lines, k) ==
    IF k > Len(lines) THEN <<>>
    ELSE SplitLine(lines[k], 0) \o SplitLines(lines, k + 1)

\* The cards of texts[k..] pushed in order: PunchCard::from_str, then
\* with_sequence when asked for, seq counting the cards from 1; the first
\* error ends the call.
RECURSIVE PushCards(_, _, _, _)
PushCards(texts, k, with_seq_numbers, cards) ==
    IF k > Len(texts) THEN Ok([cards |-> cards])
    ELSE LET made == PunchCard_from_str(texts[k])
             card == IF made.ok /\ with_seq_numbers
                     THEN with_sequence(made.val, k) ELSE made
         IN  IF ~card.ok THEN card
             ELSE PushCards(texts, k + 1, with_seq_numbers,
                            Append(cards, card.val))

\* A text without lines gives one blank card.
CardDeck_from_text(text, with_seq_numbers) ==
    LET texts == SplitLines(Lines(text, 1), 1)
    IN  PushCards(IF texts = <<>> THEN <<Fill(" ", 80)>> ELSE texts, 1,
                  with_seq_numbers, <<>>)

----------------------------------------------------------------------------
(* Bounds and inputs                                                       *)

MaxCards == 3       \* longest card sequence of a deck
MaxHistory == 2     \* longest audit history
MaxSteps == 4       \* Deck calls in one run

\* Texts a user types; CardRecord::from_text pads them to 80 columns.
\* TextAB is blank in the sequence field, TextWX has content in columns 72
\* and 73, TextSeq10 carries the digits number_sequence writes for 10.
TextAB == <<"A", "B">>
TextWX == Fill(" ", 71) \o <<"W", "X">>
TextSeq10 == <<"C">> \o Fill(" ", 77) \o <<"1", "0">>
InputTexts == {TextAB, TextWX, TextSeq10}

NewCards ==
    {CardRecord_from_text(t, "hollerith", "code").val : t \in InputTexts}

\* (language, template, protected_cols) given to DeckHeader::new.
HeaderArgs(language, template, protected_cols) ==
    [language |-> language, template |-> template,
     protected_cols |-> protected_cols]

SeqField == ColumnRange(73, 80)
SeqHead == ColumnRange(73, 79)
SeqTail == ColumnRange(80, 80)

Unprotected == HeaderArgs(None, None, <<>>)
Protected == HeaderArgs(None, None, <<SeqField>>)
TailFirst == HeaderArgs(None, None, <<SeqTail, SeqHead>>)
HeadFirst == HeaderArgs(None, None, <<SeqHead, SeqTail>>)

\* The headers of the deck under edit and of the second deck.
DeckConfigs ==
    {<<Unprotected, Unprotected>>,
     <<Protected, Protected>>,
     <<Protected, Unprotected>>,
     <<Protected, HeaderArgs(Some("fortran"), None, <<SeqField>>)>>,
     <<Protected, HeaderArgs(None, Some("fortran-fixed"), <<SeqField>>)>>,
     <<TailFirst, HeadFirst>>}

Indexes == 0..MaxCards

\* (start, step) given to number_sequence; the second pair reaches nine
\* digits on the second card.
NumberArgs == {<<10, 10>>, <<99999999, 1>>}

\* Index lists given to slice_indices; MaxCards is never a valid index.
SliceArgs == {<<>>, <<0>>, <<1, 0>>, <<2, 0, 1>>, <<0, MaxCards>>}

LogActions == {"card add"}

NewDeck(args) ==
    Deck_new(DeckHeader_new(args.language, args.template,
                            args.protected_cols, 0))

\* A second deck built earlier: one card appended, one action logged.
BuiltDeck(args) ==
    log_action(
        append_card(NewDeck(args),
                    CardRecord_from_text(TextAB, "hollerith", "data").val).self,
        "deck import", "user", 0)

EncIdle == [a |-> " ", b |-> " ", ra |-> None, rb |-> None]
CardIdle == Ok(PunchCard_new)
PLastIdle == [op |-> "new"]
NoLines == <<>>

----------------------------------------------------------------------------
(* The Deck state machine                                                  *)

Init ==
    /\ \E cfg \in DeckConfigs :
          /\ deck = NewDeck(cfg[1])
          /\ other \in {NewDeck(cfg[2]), BuiltDeck(cfg[2])}
    /\ last = [op |-> "new"]
    /\ steps = 0
    /\ disk = NoLines
    /\ enc = EncIdle
    /\ pcard = CardIdle
    /\ plast = PLastIdle

Harness == <<enc, pcard, plast, disk>>

AppendCard ==
    \E card \in NewCards :
        /\ steps < MaxSteps
        /\ Len(deck.cards) < MaxCards
        /\ LET r == append_card(deck, card)
           IN  /\ deck' = r.self
               /\ last' = [op |-> "append_card", card |-> card, res |-> r.res]
        /\ steps' = steps + 1
        /\ UNCHANGED <<other, Harness>>

InsertCard ==
    \E index \in Indexes, card \in NewCards :
        /\ steps < MaxSteps
        /\ Len(deck.cards) < MaxCards
        /\ LET r == insert_card(deck, index, card)
           IN  /\ deck' = r.self
               /\ last' = [op |-> "insert_card", index |-> index,
                           card |-> card, res |-> r.res]
        /\ steps' = steps + 1
        /\ UNCHANGED <<other, Harness>>

ReplaceCard ==
    \E index \in Indexes, card \in NewCards :
        /\ steps < MaxSteps
        /\ LET r == replace_card(deck, index, card)
           IN  /\ deck' = r.self
               /\ last' = [op |-> "replace_card", index |-> index,
                           card |-> card, res |-> r.res]
        /\ steps' = steps + 1
        /\ UNCHANGED <<other, Harness>>

NumberSequence ==
    \E a \in NumberArgs :
        /\ steps < MaxSteps
        /\ deck' = number_sequence(deck, a[1], a[2])
        /\ last' = [op |-> "number_sequence", start |-> a[1], step |-> a[2]]
        /\ steps' = steps + 1
        /\ UNCHANGED <<other, Harness>>

SortBySequence ==
    /\ steps < MaxSteps
    /\ deck' = sort_by_sequence(deck)
    /\ last' = [op |-> "sort_by_sequence"]
    /\ steps' = steps + 1
    /\ UNCHANGED <<other, Harness>>

LogAction ==
    \E action \in LogActions :
        /\ steps < MaxSteps
        /\ Len(deck.header.history) < MaxHistory
        /\ deck' = log_action(deck, action, "user", steps + 1)
        /\ last' = [op |-> "log_action", action |-> action]
        /\ steps' = steps + 1
        /\ UNCHANGED <<other, Harness>>

MergeFrom ==
    /\ steps < MaxSteps
    /\ Len(deck.cards) + Len(other.cards) <= MaxCards
    /\ Len(deck.header.history) + Len(other.header.history) <= MaxHistory
    /\ LET r == merge_from(deck, other)
       IN  /\ deck' = r.self
           /\ last' = [op |-> "merge_from", res |-> r.res]
    /\ steps' = steps + 1
    /\ UNCHANGED <<other, Harness>>

SliceIndices ==
    \E indices \in SliceArgs :
        /\ steps < MaxSteps
        /\ LET r == slice_indices(deck, indices)
           IN  /\ other' = IF r.ok THEN r.val ELSE other
               /\ last' = [op |-> "slice_indices", indices |-> indices,
                           res |-> r]
        /\ steps' = steps + 1
        /\ UNCHANGED <<deck, Harness>>

Next ==
    \/ AppendCard
    \/ InsertCard
    \/ ReplaceCard
    \/ NumberSequence
    \/ SortBySequence
    \/ LogAction
    \/ MergeFrom
    \/ SliceIndices

Spec == Init /\ [][Next]_vars

----------------------------------------------------------------------------
(* A deck with protected columns edited card by card: append_card,         *)
(* insert_card and replace_card only                                       *)

ProtectedConfigs ==
    {<<SeqField>>,
     <<ColumnRange(72, 72)>>,
     <<ColumnRange(2, 2)>>,
     <<ColumnRange(1, 1), ColumnRange(79, 80)>>}

InitProtect ==
    /\ \E protected_cols \in ProtectedConfigs :
          deck = NewDeck(HeaderArgs(None, None, protected_cols))
    /\ other = NewDeck(Unprotected)
    /\ last = [op |-> "new"]
    /\ steps = 0
    /\ disk = NoLines
    /\ enc = EncIdle
    /\ pcard = CardIdle
    /\ plast = PLastIdle

NextProtect == AppendCard \/ InsertCard \/ ReplaceCard

SpecProtect == InitProtect /\ [][NextProtect]_vars

----------------------------------------------------------------------------
(* The encoder harness: encode_char applied to two characters              *)

Unencodable == {"[", "]", "{", "}", "~", "^"}

EncChars ==
    MapKeys
    \cup {VALID_SET[i] : i \in 1..Len(VALID_SET)}
    \cup {ASCII_LOWER[i] : i \in 1..Len(ASCII_LOWER)}
    \cup Unencodable

InitEncoder ==
    /\ \E a \in EncChars, b \in EncChars :
          enc = [a |-> a, b |-> b, ra |-> None, rb |-> None]
    /\ deck = NewDeck(Unprotected)
    /\ other = NewDeck(Unprotected)
    /\ last = [op |-> "new"]
    /\ steps = 0
    /\ disk = NoLines
    /\ pcard = CardIdle
    /\ plast = PLastIdle

EncodePair ==
    /\ enc.ra = None
    /\ enc' = [enc EXCEPT !.ra = Some(encode_char(enc.a)),
                          !.rb = Some(encode_char(enc.b))]
    /\ UNCHANGED <<deck, other, last, steps, pcard, plast, disk>>

NextEncoder == EncodePair

SpecEncoder == InitEncoder /\ [][NextEncoder]_vars

----------------------------------------------------------------------------
(* The PunchCard harness: from_str, then with_sequence and render, any     *)
(* number of times                                                         *)

CardHello == <<"H", "E", "L", "L", "O">>
CardLower == <<"h", "e", "l", "l", "o">>
CardFullField ==
    Fill(" ", 71) \o <<"A", "B", "C", "D", "E", "F", "G", "H", "I">>
CardMidField == Fill(" ", 76) \o <<"X">>
CardLastCol == Fill(" ", 79) \o <<"Z">>
CardLong == Fill("A", 78) \o <<" ", " ", "B", "C">>
CardBad == <<"A", "[", "B">>

CardTexts ==
    {<<>>, CardHello, CardLower, CardFullField, CardMidField, CardLastCol,
     CardLong, CardBad}

\* Sequence numbers given to with_sequence: one to ten digits.
SeqArgs == {1, 42, 1234567, 123456789, 1234567890}

InitCard ==
    /\ \E s \in CardTexts :
          /\ pcard = PunchCard_from_str(s)
          /\ plast = [op |-> "from_str", s |-> s]
    /\ deck = NewDeck(Unprotected)
    /\ other = NewDeck(Unprotected)
    /\ last = [op |-> "new"]
    /\ steps = 0
    /\ disk = NoLines
    /\ enc = EncIdle

WithSequence ==
    \E seq \in SeqArgs :
        /\ pcard.ok
        /\ pcard' = with_sequence(pcard.val, seq)
        /\ plast' = [op |-> "with_sequence", seq |-> seq, s |-> plast.s]
        /\ UNCHANGED <<deck, other, last, steps, enc, disk>>

Render ==
    \E style \in RenderStyles :
        /\ pcard.ok
        /\ plast' = [op |-> "render", style |-> style, s |-> plast.s,
                     out |-> render(pcard.val, style)]
        /\ UNCHANGED <<pcard, deck, other, last, steps, enc, disk>>

NextCard == WithSequence \/ Render

SpecCard == InitCard /\ [][NextCard]_vars

----------------------------------------------------------------------------
(* The CardDeck harness: from_text applied to a text of several lines      *)

MaxLines == 2       \* most lines of an input text

Line1 == <<"a">>
Line79 == Fill("B", 78) \o <<"c">>
Line80 == Fill("D", 79) \o <<"E">>
Line81 == Fill("F", 80) \o <<"G">>
Line161 == Fill("H", 80) \o Fill(" ", 79) \o <<"I", "J">>
LineBad == <<"K", "[">>

LineShapes == {<<>>, Line1, Line79, Line80, Line81, Line161, LineBad}

LineLists == UNION {[1..n -> LineShapes] : n \in 0..MaxLines}

\* The lines joined: every line but the last is followed by the line
\* ending, the last one only if final asks for it.
RECURSIVE JoinLines(_, _, _, _)
JoinLines(lines, k, ending, final) ==
    IF k > Len(lines) THEN <<>>
    ELSE lines[k]
         \o (IF k < Len(lines) \/ final THEN ending ELSE <<>>)
         \o JoinLines(lines, k + 1, ending, final)

LineEndings == {<<"\n">>, <<"\r", "\n">>}

InitDeckText ==
    /\ \E lines \in LineLists, ending \in LineEndings, final \in BOOLEAN,
          with_seq_numbers \in BOOLEAN :
          /\ (lines # <<>> /\ lines[Len(lines)] = <<>>) => final
          /\ plast = [op |-> "text", lines |-> lines,
                      text |-> JoinLines(lines, 1, ending, final),
                      with_seq_numbers |-> with_seq_numbers]
    /\ pcard = CardIdle
    /\ deck = NewDeck(Unprotected)
    /\ other = NewDeck(Unprotected)
    /\ last = [op |-> "new"]
    /\ steps = 0
    /\ disk = NoLines
    /\ enc = EncIdle

DeckFromText ==
    /\ plast.op = "text"
    /\ pcard' = CardDeck_from_text(plast.text, plast.with_seq_numbers)
    /\ plast' = [plast EXCEPT !.op = "from_text"]
    /\ UNCHANGED <<deck, other, last, steps, enc, disk>>

NextDeckText == DeckFromText

SpecDeckText == InitDeckText /\ [][NextDeckText]_vars

----------------------------------------------------------------------------
(* Sorting a deck read from a file, whose cards carry any sequence numbers *)

SortSeqs == {None, Some(10), Some(20), Some(30)}

\* The k-th card of such a deck; its note tells the cards apart.
TaggedCard(k, seq) ==
    [CardRecord_from_text(TextAB, "hollerith", "code").val
        EXCEPT !.seq = seq, !.meta.note = Some(ToDecimal(k))]

SortDecks ==
    {[NewDeck(Unprotected) EXCEPT
         !.cards = [k \in 1..Len(seqs) |-> TaggedCard(k, seqs[k])]] :
     seqs \in UNION {[1..n -> SortSeqs] : n \in 0..MaxCards}}

InitSort ==
    /\ deck \in SortDecks
    /\ other = NewDeck(Unprotected)
    /\ last = [op |-> "load"]
    /\ steps = 0
    /\ disk = NoLines
    /\ enc = EncIdle
    /\ pcard = CardIdle
    /\ plast = PLastIdle

NextSort == SortBySequence

SpecSort == InitSort /\ [][NextSort]_vars

----------------------------------------------------------------------------
(* Numbering and sorting such a deck, any number of times                  *)

\* (start, step) given to number_sequence: step 0, a start of 0, and a pair
\* that reaches nine digits on the second card.
NumberSortArgs == {<<0, 0>>, <<7, 0>>, <<1, 1>>, <<10, 10>>, <<99999999, 1>>}

NumberSequenceAny ==
    \E a \in NumberSortArgs :
        /\ steps < MaxSteps
        /\ deck' = number_sequence(deck, a[1], a[2])
        /\ last' = [op |-> "number_sequence", start |-> a[1], step |-> a[2]]
        /\ steps' = steps + 1
        /\ UNCHANGED <<other, Harness>>

NextNumberSort ==
    \/ NumberSequenceAny
    \/ SortBySequence

SpecNumberSort == InitSort /\ [][NextNumberSort]_vars

----------------------------------------------------------------------------
(* CardRecord::from_text applied to a text, then to the text it stored     *)

MaxExcess == 2      \* how far a text may exceed 80 columns

\* Texts of every length up to MAX_COLS + MaxExcess: letters only, spaces
\* only, and the two-byte character of the table alternating with spaces.
TextShapes ==
    UNION {{Fill("A", n), Fill(" ", n),
            [i \in 1..n |-> IF i % 2 = 1 THEN "CENT" ELSE " "]} :
           n \in 0..(MAX_COLS + MaxExcess)}

InitText ==
    /\ \E text \in TextShapes : last = [op |-> "text", text |-> text]
    /\ deck = NewDeck(Unprotected)
    /\ other = NewDeck(Unprotected)
    /\ steps = 0
    /\ disk = NoLines
    /\ enc = EncIdle
    /\ pcard = CardIdle
    /\ plast = PLastIdle

FromText ==
    \E card_type \in {"code", "comment"} :
        /\ last.op = "text"
        /\ last' = [op |-> "from_text", text |-> last.text,
                    res |-> CardRecord_from_text(last.text, "hollerith",
                                                 card_type)]
        /\ UNCHANGED <<deck, other, steps, Harness>>

\* The stored text given to from_text once more.
FromTextAgain ==
    /\ last.op = "from_text"
    /\ last.res.ok
    /\ last' = [op |-> "from_text_again", text |-> Unwrap(last.res.val.text),
                first |-> last.res,
                res |-> CardRecord_from_text(Unwrap(last.res.val.text),
                                             last.res.val.encoding,
                                             last.res.val.card_type)]
    /\ UNCHANGED <<deck, other, steps, Harness>>

NextText ==
    \/ FromText
    \/ FromTextAgain

SpecText == InitText /\ [][NextText]_vars

----------------------------------------------------------------------------
(* Decks with every field set some way, for the file and the digest        *)

BaseHeader == DeckHeader_new(None, None, <<>>, 0)
BaseCard == CardRecord_from_text(TextAB, "hollerith", "code").val
EventInit == AuditEvent_new("deck init", "user", 1)
EventAdd == AuditEvent_new("card add", "operator", 12)

\* BaseHeader, and BaseHeader with one field changed.
FileHeaders ==
    {BaseHeader,
     [BaseHeader EXCEPT !.version = 2],
     [BaseHeader EXCEPT !.created_at = 305],
     [BaseHeader EXCEPT !.language = Some("fortran")],
     [BaseHeader EXCEPT !.template = Some("fortran-fixed")],
     [BaseHeader EXCEPT !.protected_cols = <<SeqField>>],
     [BaseHeader EXCEPT !.readonly = TRUE],
     [BaseHeader EXCEPT !.history = <<EventInit>>],
     [BaseHeader EXCEPT !.history = <<EventInit, EventAdd>>],
     [BaseHeader EXCEPT !.history = <<EventAdd, EventInit>>]}

\* BaseCard, and BaseCard with one field changed.
FileCards ==
    {BaseCard,
     [BaseCard EXCEPT !.text = None],
     [BaseCard EXCEPT !.text = Some(PadToMaxCols(<<"A", "\"", "\\">>))],
     [BaseCard EXCEPT !.punches = Some(<<"0", "1">>)],
     [BaseCard EXCEPT !.encoding = "ebcdic"],
     [BaseCard EXCEPT !.seq = Some(10)],
     [BaseCard EXCEPT !.seq = Some(0)],
     [BaseCard EXCEPT !.card_type = "comment"],
     [BaseCard EXCEPT !.protected_cols = <<SeqHead, SeqTail>>],
     [BaseCard EXCEPT !.meta.color = Some(<<"r", "e", "d">>)],
     [BaseCard EXCEPT !.meta.note = Some(<<"r", "e", "d">>)],
     [BaseCard EXCEPT !.meta.note = Some(<<>>)]}

FileCardLists ==
    {<<>>, <<BaseCard, BaseCard>>}
    \cup {<<card>> : card \in FileCards}
    \cup {<<[BaseCard EXCEPT !.seq = Some(10)], BaseCard>>,
          <<BaseCard, [BaseCard EXCEPT !.seq = Some(10)]>>}

FileDecks ==
    {[header |-> header, cards |-> cards, path |-> None] :
        header \in FileHeaders, cards \in FileCardLists}

DeckPath == "deck.jsonl"

----------------------------------------------------------------------------
(* The deck file: saved and loaded                                         *)

InitFile ==
    /\ deck \in FileDecks
    /\ disk = NoLines
    /\ other = NewDeck(Unprotected)
    /\ last = [op |-> "new"]
    /\ steps = 0
    /\ enc = EncIdle
    /\ pcard = CardIdle
    /\ plast = PLastIdle

Save ==
    /\ LET r == save(deck, DeckPath)
       IN  /\ deck' = r.self
           /\ disk' = r.file
           /\ last' = [op |-> "save", res |-> r.res]
    /\ UNCHANGED <<other, steps, enc, pcard, plast>>

Load ==
    /\ LET r == load(disk, DeckPath)
       IN  /\ other' = IF r.ok THEN r.val ELSE other
           /\ last' = [op |-> "load", res |-> r]
    /\ UNCHANGED <<deck, disk, steps, enc, pcard, plast>>

NextFile ==
    \/ Save
    \/ Load

SpecFile == InitFile /\ [][NextFile]_vars

----------------------------------------------------------------------------
(* The deck file: saved, edited by hand, loaded                            *)

MaxEdits == 1       \* edits made to the file by hand

\* Lines an editor may put into the file: three blank ones, then text that
\* is no JSON, a header record, a card record with white space around it,
\* JSON values that are no record, and two records on one line.
EditLines == <<
    <<>>,
    <<Ws(" ")>>,
    <<Ws("\t"), Ws("NBSP")>>,
    <<Junk("x")>>,
    <<Doc(ser_Header(BaseHeader))>>,
    <<Ws(" "), Doc(ser_Card(BaseCard)), Ws("\r")>>,
    <<Ws("NBSP"), Doc(ser_Card(BaseCard))>>,
    <<Doc(JObj(<<>>))>>,
    <<Doc(JObj(<<<<"kind", ser_Symbol("deck")>>>>))>>,
    <<Doc(JObj(<<<<"kind", ser_Symbol("header")>>>>))>>,
    <<Doc(JNum(7))>>,
    <<Doc(ser_Card(BaseCard)), Doc(ser_Card(BaseCard))>>
>>

\* Decks of no card, of one card and of two.
EditDecks ==
    {[header |-> BaseHeader, cards |-> <<>>, path |-> None],
     [header |-> [BaseHeader EXCEPT !.history = <<EventInit>>],
      cards |-> <<BaseCard>>, path |-> None],
     [header |-> [BaseHeader EXCEPT !.protected_cols = <<SeqField>>],
      cards |-> <<[BaseCard EXCEPT !.seq = Some(10)],
                  [BaseCard EXCEPT !.meta.note = Some(<<"r", "e", "d">>)]>>,
      path |-> None]}

InitEdit ==
    /\ deck \in EditDecks
    /\ disk = NoLines
    /\ other = NewDeck(Unprotected)
    /\ last = [op |-> "new"]
    /\ steps = 0
    /\ enc = EncIdle
    /\ pcard = CardIdle
    /\ plast = PLastIdle

\* A line put into the file before line pos + 1.
EditInsert ==
    \E n \in 1..Len(EditLines), pos \in 0..Len(disk) :
        /\ steps < MaxEdits
        /\ disk' = VecInsert(disk, pos, EditLines[n])
        /\ last' = [op |-> "edit_insert", pos |-> pos]
        /\ steps' = steps + 1
        /\ UNCHANGED <<deck, other, enc, pcard, plast>>

\* Line pos taken out of the file.
EditDelete ==
    \E pos \in 1..Len(disk) :
        /\ steps < MaxEdits
        /\ disk' = SubSeq(disk, 1, pos - 1) \o SubSeq(disk, pos + 1, Len(disk))
        /\ last' = [op |-> "edit_delete", pos |-> pos]
        /\ steps' = steps + 1
        /\ UNCHANGED <<deck, other, enc, pcard, plast>>

NextEdit ==
    \/ Save
    \/ Load
    \/ EditInsert
    \/ EditDelete

SpecEdit == InitEdit /\ [][NextEdit]_vars

----------------------------------------------------------------------------
(* The digests of two decks                                                *)

InitHash ==
    /\ \E a \in FileDecks, path \in {None, Some(DeckPath)} :
          deck = [a EXCEPT !.path = path]
    /\ other \in FileDecks
    /\ last = [op |-> "new"]
    /\ steps = 0
    /\ disk = NoLines
    /\ enc = EncIdle
    /\ pcard = CardIdle
    /\ plast = PLastIdle

Hash ==
    /\ last.op = "new"
    /\ last' = [op |-> "hash", a |-> hash(deck), b |-> hash(other)]
    /\ UNCHANGED <<deck, other, steps, Harness>>

NextHash == Hash

SpecHash == InitHash /\ [][NextHash]_vars

----------------------------------------------------------------------------
(* cli/: the commands that change a deck file.  Each handler is one step:  *)
(* it loads the file, changes the deck in memory, logs one event and       *)
(* saves; `?` leaves the handler at the first error.  No template is      *)
(* given, and the card type, note and colour arguments are the defaults.   *)

\* cli/utils.rs: every line cut or padded to 80 columns; one blank line
\* for an input without lines.
split_lines_fixed(input) ==
    LET raw == Lines(input, 1)
    IN  IF raw = <<>> THEN <<Fill(" ", 80)>>
        ELSE [k \in 1..Len(raw) |-> PadToMaxCols(Take(raw[k], 80))]

\* The loop of `card add` and of `card type` from its k-th line on:
\* insert_card at position - 1 + i when a position is given, append_card
\* otherwise.
RECURSIVE AddCards(_, _, _, _)
AddCards(deck_, lines, k, position) ==
    IF k > Len(lines) THEN Returned(OkUnit, deck_)
    ELSE LET record == CardRecord_from_text(lines[k], "hollerith", "code")
             r == IF ~record.ok THEN Returned(record, deck_)
                  ELSE IF IsSome(position)
                  THEN insert_card(deck_,
                                   SaturatingSub(Unwrap(position), 1) + k - 1,
                                   record.val)
                  ELSE append_card(deck_, record.val)
         IN  IF ~r.res.ok THEN r
             ELSE AddCards(r.self, lines, k + 1, position)

\* The loop of `deck import`: one card for each line, as it is.
RECURSIVE ImportCards(_, _, _)
ImportCards(deck_, lines, k) ==
    IF k > Len(lines) THEN Returned(OkUnit, deck_)
    ELSE LET record == CardRecord_from_text(lines[k], "hollerith", "code")
         IN  IF ~record.ok THEN Returned(record, deck_)
             ELSE ImportCards(append_card(deck_, record.val).self, lines, k + 1)

\* parse_range_expression for a comma list of plain numbers, given as the
\* sequence of their values: 1-based, each within the deck, repeats dropped.
RECURSIVE Unique(_, _, _)
Unique(values, k, unique) ==
    IF k > Len(values) THEN unique
    ELSE IF \E i \in 1..Len(unique) : unique[i] = values[k] - 1
    THEN Unique(values, k + 1, unique)
    ELSE Unique(values, k + 1, Append(unique, values[k] - 1))

parse_range_expression(values, deck_len) ==
    IF values = <<>> THEN Err("EmptyRange")
    ELSE IF \E k \in 1..Len(values) : values[k] = 0 THEN Err("OneBased")
    ELSE IF \E k \in 1..Len(values) : values[k] - 1 >= deck_len
    THEN Err("IndexOutOfRange")
    ELSE Ok(Unique(values, 1, <<>>))

\* The two calls exchanged: the event is logged after the file was
\* written, and is lost.
Finish_saveFirst(r, action, now, file) ==
    IF ~r.res.ok THEN [res |-> r.res, file |-> file]
    ELSE [res  |-> save(r.self, DeckPath).res,
          file |-> save(r.self, DeckPath).file]

\* The end of every handler: on an error nothing more happens and the file
\* stays as it is; otherwise deck.log_action(action), then deck.save(path).
Finish(r, action, now, file) ==
    IF ~r.res.ok THEN [res |-> r.res, file |-> file]
    ELSE [res  |-> save(log_action(r.self, action, "user", now), DeckPath).res,
          file |-> save(log_action(r.self, action, "user", now), DeckPath).file]

\* load_deck, as the first stage of a handler.
load_deck(file) ==
    IF load(file, DeckPath).ok THEN Returned(OkUnit, load(file, DeckPath).val)
    ELSE Returned(load(file, DeckPath), None)

MaxCommands == 2    \* commands run on the deck file

CliHeaders == {Unprotected, Protected}

\* What --text, --from or stdin gives: one line, two lines of which the
\* second has content in columns 72 and 73, nothing, a line of 81 columns.
TextTwoLines == TextAB \o <<"\n">> \o TextWX \o <<"\n">>
TextTooLong == Fill("L", 81)
AddTexts == {TextAB, TextTwoLines, <<>>}
TypeTexts == {TextWX}
ReplaceTexts == {TextAB, TextTooLong}
ReplaceIndexes == 0..2
ImportTexts == {TextTwoLines, TextTooLong}
Positions == {None, Some(1), Some(3)}
RangeArgs == {<<1>>, <<2, 1, 2>>, <<0>>}

PatchMeta ==
    [note  |-> Some(<<"p", "a", "t", "c", "h", " ", "c", "a", "r", "d">>),
     color |-> Some(<<"a", "m", "b", "e", "r">>)]

\* The file `deck init` writes.
InitFileOf(args) ==
    save(log_action(NewDeck(args), "deck init", "user", 0), DeckPath).file

\* The deck file is one written by `deck init`, one written by `deck
\* import` from two lines, or an empty file; `other` is the deck held by a
\* second file, an input of `deck merge`.
InitCli ==
    /\ \/ \E args \in CliHeaders : disk = InitFileOf(args)
       \/ disk = Finish(ImportCards(NewDeck(Unprotected),
                                    Lines(TextAB \o <<"\n">> \o TextSeq10, 1), 1),
                        "import from SOURCE", 0, NoLines).file
       \/ disk = NoLines
    /\ \E args \in CliHeaders : other = BuiltDeck(args)
    /\ deck = NewDeck(Unprotected)
    /\ last = [op |-> "new"]
    /\ steps = 0
    /\ enc = EncIdle
    /\ pcard = CardIdle
    /\ plast = PLastIdle

CliFrame == <<deck, other, enc, pcard, plast>>

\* Each command below is the whole handler: load_deck, the change, then
\* log_action and save.  The action logged is a string of one symbol; the
\* arguments a handler formats into it are written as their names.  The
\* output file of import, merge and slice is the deck file.
AddOutcome(d, text, position) ==
    IF ~d.res.ok THEN d
    ELSE AddCards(d.self, split_lines_fixed(text), 1, position)

CardAdd ==
    /\ steps < MaxCommands
    /\ \E d \in {load_deck(disk)}, text \in AddTexts, position \in Positions :
        \E out \in {Finish(AddOutcome(d, text, position), "card add", steps + 1, disk)} :
            /\ disk' = out.file
            /\ last' = [op |-> "card add", text |-> text,
                        position |-> position, res |-> out.res]
    /\ steps' = steps + 1
    /\ UNCHANGED CliFrame

CardType ==
    /\ steps < MaxCommands
    /\ \E d \in {load_deck(disk)}, buffer \in TypeTexts :
        \E out \in {Finish(AddOutcome(d, buffer, None), "card type", steps + 1, disk)} :
            /\ disk' = out.file
            /\ last' = [op |-> "card type", text |-> buffer, res |-> out.res]
    /\ steps' = steps + 1
    /\ UNCHANGED CliFrame

\* index is 1-based; the new record takes the type of the card it replaces
\* and nothing else of it.
ReplaceOutcome(d, index, text) ==
    IF ~d.res.ok THEN d
    ELSE IF index = 0 \/ index > Len(d.self.cards)
    THEN Returned(IndexOutOfRange(index, Len(d.self.cards)), d.self)
    ELSE LET record == CardRecord_from_text(text, "hollerith",
                                            d.self.cards[index].card_type)
         IN  IF ~record.ok THEN Returned(record, d.self)
             ELSE replace_card(d.self, index - 1, record.val)

CardReplace ==
    /\ steps < MaxCommands
    /\ \E d \in {load_deck(disk)}, index \in ReplaceIndexes, text \in ReplaceTexts :
        \E out \in {Finish(ReplaceOutcome(d, index, text), "card replace INDEX", steps + 1, disk)} :
            /\ disk' = out.file
            /\ last' = [op |-> "card replace", index |-> index,
                        text |-> text, res |-> out.res]
    /\ steps' = steps + 1
    /\ UNCHANGED CliFrame

PatchOutcome(d, text) ==
    IF ~d.res.ok THEN d
    ELSE LET record == CardRecord_from_text(text, "hollerith", "patch")
         IN  IF ~record.ok THEN Returned(record, d.self)
             ELSE append_card(d.self, [record.val EXCEPT !.meta = PatchMeta])

CardPatch ==
    /\ steps < MaxCommands
    /\ \E d \in {load_deck(disk)} :
        \E out \in {Finish(PatchOutcome(d, TextAB), "card patch", steps + 1, disk)} :
            /\ disk' = out.file
            /\ last' = [op |-> "card patch", res |-> out.res]
    /\ steps' = steps + 1
    /\ UNCHANGED CliFrame

NumberOutcome(d, start, step) ==
    IF ~d.res.ok THEN d
    ELSE Returned(OkUnit, number_sequence(d.self, start, step))

SeqNumber ==
    /\ steps < MaxCommands
    /\ \E d \in {load_deck(disk)} :
        \E out \in {Finish(NumberOutcome(d, 10, 10), "seq number start=START step=STEP", steps + 1, disk)} :
            /\ disk' = out.file
            /\ last' = [op |-> "seq number", res |-> out.res]
    /\ steps' = steps + 1
    /\ UNCHANGED CliFrame

SortOutcome(d) ==
    IF ~d.res.ok THEN d
    ELSE Returned(OkUnit, sort_by_sequence(d.self))

SeqSort ==
    /\ steps < MaxCommands
    /\ \E d \in {load_deck(disk)} :
        \E out \in {Finish(SortOutcome(d), "seq sort", steps + 1, disk)} :
            /\ disk' = out.file
            /\ last' = [op |-> "seq sort", res |-> out.res]
    /\ steps' = steps + 1
    /\ UNCHANGED CliFrame

\* `deck import SOURCE -o DECK`: a new deck takes the place of the file.
ImportOutcome(contents, now) ==
    ImportCards(Deck_new(DeckHeader_new(None, None, <<>>, now)),
                Lines(contents, 1), 1)

DeckImport ==
    /\ steps < MaxCommands
    /\ \E contents \in ImportTexts :
        \E out \in {Finish(ImportOutcome(contents, steps + 1), "import from SOURCE", steps + 1, disk)} :
            /\ disk' = out.file
            /\ last' = [op |-> "deck import", text |-> contents,
                        res |-> out.res]
    /\ steps' = steps + 1
    /\ UNCHANGED CliFrame

\* `deck merge DECK OTHER -o DECK`: the second input holds `other`.
MergeOutcome(d, src) ==
    IF ~d.res.ok THEN d
    ELSE IF ~src.res.ok THEN Returned(src.res, d.self)
    ELSE merge_from(d.self, src.self)

DeckMerge ==
    /\ steps < MaxCommands
    /\ \E d \in {load_deck(disk)}, src \in {load_deck(SaveLines(other))} :
        \E out \in {Finish(MergeOutcome(d, src), "merge 2 decks into DECK", steps + 1, disk)} :
            /\ disk' = out.file
            /\ last' = [op |-> "deck merge", res |-> out.res]
    /\ steps' = steps + 1
    /\ UNCHANGED CliFrame

\* `deck slice DECK -r RANGE -o DECK`.
SliceOutcome(d, range) ==
    IF ~d.res.ok THEN d
    ELSE LET indexes == parse_range_expression(range, Len(d.self.cards))
         IN  IF ~indexes.ok THEN Returned(indexes, d.self)
             ELSE LET sliced == slice_indices(d.self, indexes.val)
                  IN  IF ~sliced.ok THEN Returned(sliced, d.self)
                      ELSE Returned(OkUnit, sliced.val)

DeckSlice ==
    /\ steps < MaxCommands
    /\ \E d \in {load_deck(disk)}, range \in RangeArgs :
        \E out \in {Finish(SliceOutcome(d, range), "slice RANGE -> DECK", steps + 1, disk)} :
            /\ disk' = out.file
            /\ last' = [op |-> "deck slice", range |-> range,
                        res |-> out.res]
    /\ steps' = steps + 1
    /\ UNCHANGED CliFrame

NextCli ==
    \/ CardAdd
    \/ CardType
    \/ CardReplace
    \/ CardPatch
    \/ SeqNumber
    \/ SeqSort
    \/ DeckImport
    \/ DeckMerge
    \/ DeckSlice

SpecCli == InitCli /\ [][NextCli]_vars

----------------------------------------------------------------------------
(* Properties                                                              *)

\* The columns a header protects, as a set.
ProtectedSet(header) ==
    {c \in 1..MAX_COLS :
        \E k \in 1..Len(header.protected_cols) :
            /\ header.protected_cols[k].start <= c
            /\ c <= header.protected_cols[k].end}

TextOf(card) == Unwrap(card.text)

IsProtectionError(res) ==
    ~res.ok /\ res.err \in {"ProtectedChange", "ProtectedNew"}

\* C1: in a deck with protected column ranges, replace_card(index, card)
\* with index < len succeeds (and puts the card at index) exactly when the
\* new text equals the text of the previous occupant at every protected
\* column; otherwise it fails with a protected-column violation that names
\* a protected column where they differ, the old character and the new one.
C1_ReplaceProtected ==
    [][(/\ last'.op = "replace_card"
        /\ deck.header.protected_cols # <<>>
        /\ last'.index < Len(deck.cards))
       => LET old == TextOf(deck.cards[last'.index + 1])
              new == TextOf(last'.card)
              differ == {c \in ProtectedSet(deck.header) : old[c] # new[c]}
          IN  /\ last'.res.ok <=> differ = {}
              /\ last'.res.ok => deck'.cards[last'.index + 1] = last'.card
              /\ differ # {} =>
                    /\ last'.res.err = "ProtectedChange"
                    /\ last'.res.col \in differ
                    /\ last'.res.old = old[last'.res.col]
                    /\ last'.res.new = new[last'.res.col]]_vars

\* A card numbered 10 by number_sequence was replaced by a card that
\* carries the same digits in the protected sequence field.
C1_Witness ==
    /\ last.op = "replace_card"
    /\ last.res.ok
    /\ deck.header.protected_cols # <<>>
    /\ TextOf(deck.cards[last.index + 1])[1] = "C"
    /\ TextOf(deck.cards[last.index + 1])[80] = "0"

NonBlankProtected(header, card) ==
    {c \in ProtectedSet(header) : TextOf(card)[c] # " "}

\* C2 as stated: in a deck with protected column ranges, append_card and
\* insert_card accept a new card only if all its protected columns are
\* spaces, and reject a card with a non-blank protected column with a
\* protected-column violation.
C2_AsStated ==
    [][(/\ last'.op \in {"append_card", "insert_card"}
        /\ deck.header.protected_cols # <<>>)
       => /\ last'.res.ok => NonBlankProtected(deck.header, last'.card) = {}
          /\ NonBlankProtected(deck.header, last'.card) # {}
                => IsProtectionError(last'.res)]_vars

\* C2: in a deck with protected column ranges, append_card and insert_card
\* accept a new card only if all its protected columns are spaces; a card
\* with a non-blank protected column is rejected, with a protected-column
\* violation naming such a column by append_card and by insert_card with
\* index <= len, and with an index-out-of-range error by insert_card with
\* index > len, which checks the index first.
C2_NewCardBlank ==
    [][(/\ last'.op \in {"append_card", "insert_card"}
        /\ deck.header.protected_cols # <<>>)
       => LET nonblank == NonBlankProtected(deck.header, last'.card)
              outside == /\ last'.op = "insert_card"
                         /\ last'.index > Len(deck.cards)
          IN  /\ last'.res.ok => nonblank = {}
              /\ nonblank # {} =>
                    /\ ~last'.res.ok
                    /\ outside => last'.res.err = "IndexOutOfRange"
                    /\ ~outside =>
                          /\ last'.res.err = "ProtectedNew"
                          /\ last'.res.col \in nonblank]_vars

\* insert_card at a valid index refused a card with content in column 73.
C2_Witness ==
    /\ last.op = "insert_card"
    /\ last.index <= Len(deck.cards)
    /\ ~last.res.ok
    /\ last.res.err = "ProtectedNew"
    /\ last.res.col = 73

\* C3: when append_card, insert_card, replace_card or merge_from returns
\* an error, the deck (header, audit history, cards) is what it was before
\* the call, and so is the other deck.
C3_Atomic ==
    [][(/\ last'.op \in {"append_card", "insert_card", "replace_card",
                         "merge_from"}
        /\ ~last'.res.ok)
       => /\ deck' = deck
          /\ other' = other]_vars

\* A merge was refused between two decks that both hold cards.
C3_Witness ==
    /\ last.op = "merge_from"
    /\ ~last.res.ok
    /\ deck.cards # <<>>
    /\ other.cards # <<>>

\* The characters the encoder is meant to support: those of VALID_SET, and
\* the space.
SupportedSet == {VALID_SET[i] : i \in 1..Len(VALID_SET)} \cup {" "}

\* m punches exactly the rows the table's bit string marks for ch: the
\* r-th character of the string stands for the bit ROW_BIT_ORDER[r].
IsTableMask(ch, m) ==
    LET row == CHOOSE i \in 1..Len(IBM029_TABLE) : IBM029_TABLE[i][1] = ch
        bits == IBM029_TABLE[row][2]
    IN  /\ m \in 0..4095
        /\ \A r \in 1..12 :
              (bits[r] = 1) <=> ((m \div Pow2(ROW_BIT_ORDER[r])) % 2 = 1)

\* C4: two distinct characters of the supported set encode to different
\* hole masks.
C4_Injective ==
    (/\ IsSome(enc.ra)
     /\ enc.a \in SupportedSet
     /\ enc.b \in SupportedSet
     /\ enc.a # enc.b)
    => /\ Unwrap(enc.ra).ok
       /\ Unwrap(enc.rb).ok
       /\ Unwrap(enc.ra).val # Unwrap(enc.rb).val

\* '&' (row 12 only) and the space (no row) were encoded.
C4_Witness ==
    /\ IsSome(enc.ra)
    /\ enc.a = "&"
    /\ enc.b = " "
    /\ Unwrap(enc.ra).ok
    /\ Unwrap(enc.rb).ok

\* C5: encode_char(ch) succeeds exactly when ch, with a lowercase ASCII
\* letter folded to uppercase, is in the supported set, and then returns
\* the table's mask of the folded character, so that a lowercase letter
\* and its uppercase form encode alike; otherwise it fails with Unsupported
\* carrying ch as given.
C5_FoldedLookup ==
    IsSome(enc.ra) =>
        LET r == Unwrap(enc.ra)
            folded == to_ascii_uppercase(enc.a)
        IN  /\ r.ok <=> folded \in SupportedSet
            /\ r.ok => IsTableMask(folded, r.val)
            /\ ~r.ok => (r.err = "Unsupported" /\ r.ch = enc.a)
            /\ enc.b = folded => Unwrap(enc.rb) = r

\* 'h' and 'H' were encoded.
C5_Witness ==
    /\ IsSome(enc.ra)
    /\ enc.a = "h"
    /\ enc.b = "H"
    /\ Unwrap(enc.ra).ok

AllCards(d) == {d.cards[i] : i \in 1..Len(d.cards)}

\* C6: every card of every deck reached by append_card, insert_card,
\* replace_card, number_sequence, sort_by_sequence, merge_from and
\* slice_indices from cards built by CardRecord::from_text has a text of
\* exactly 80 columns.
C6_EightyColumns ==
    \A card \in AllCards(deck) \cup AllCards(other) :
        IsSome(card.text) /\ Len(TextOf(card)) = MAX_COLS

\* A deck built elsewhere was merged into a deck that holds a card
\* numbered with nine digits.
C6_Witness ==
    /\ last.op = "merge_from"
    /\ last.res.ok
    /\ Len(deck.cards) >= 2
    /\ \E card \in AllCards(deck) :
          IsSome(card.seq) /\ Unwrap(card.seq) >= 100000000

\* C7: with_sequence leaves every column that held a non-space character
\* with the same character and the same hole mask.
C7_NonDestructive ==
    [][(/\ plast'.op = "with_sequence"
        /\ pcard.ok
        /\ pcard'.ok)
       => \A i \in 1..Len(pcard.val.raw_text) :
             pcard.val.raw_text[i] # " " =>
                /\ pcard'.val.raw_text[i] = pcard.val.raw_text[i]
                /\ pcard'.val.cols[i] = pcard.val.cols[i]]_vars

\* The sequence number 1234567 was written around the X of column 77.
C7_Witness ==
    /\ plast.op = "with_sequence"
    /\ pcard.ok
    /\ pcard.val.raw_text[76] = "3"
    /\ pcard.val.raw_text[77] = "X"
    /\ pcard.val.raw_text[78] = "5"

\* C8: after number_sequence(start, step) the i-th card (0-based) has the
\* sequence value start + i*step, whatever it held before.
C8_Numbering ==
    last.op = "number_sequence" =>
        \A i \in 1..Len(deck.cards) :
            deck.cards[i].seq = Some(last.start + (i - 1) * last.step)

\* The second card, numbered 100000000 before (the 1 left in column 72
\* shows it), is now numbered 20.
C8_Witness ==
    /\ last.op = "number_sequence"
    /\ last.start = 10
    /\ Len(deck.cards) >= 2
    /\ deck.cards[2].seq = Some(20)
    /\ TextOf(deck.cards[2])[72] = "1"

\* The last n columns of a card's text.
Trailing(card, n) == SubSeq(TextOf(card), MAX_COLS - n + 1, MAX_COLS)

\* C9 as stated: number_sequence overwrites the trailing columns of each
\* card's text with the zero-padded decimal form of the card's value.
C9_AsStated ==
    last.op = "number_sequence" =>
        \A i \in 1..Len(deck.cards) :
            LET padded == FormatZero(Unwrap(deck.cards[i].seq), 8)
            IN  Trailing(deck.cards[i], Len(padded)) = padded

\* C9: number_sequence overwrites the trailing columns of each card's text
\* with the decimal form of the card's value, right-aligned and padded on
\* the left with spaces to eight columns (a longer value takes as many
\* columns as it has digits).
C9_SpacePadded ==
    last.op = "number_sequence" =>
        \A i \in 1..Len(deck.cards) :
            LET digits == ToDecimal(last.start + (i - 1) * last.step)
                width == IF Len(digits) > 8 THEN Len(digits) ELSE 8
                field == Trailing(deck.cards[i], width)
            IN  /\ SubSeq(field, width - Len(digits) + 1, width) = digits
                /\ \A k \in 1..(width - Len(digits)) : field[k] = " "

\* Columns 73-80 of the first card read "      10".
C9_Witness ==
    /\ last.op = "number_sequence"
    /\ Len(deck.cards) >= 1
    /\ Trailing(deck.cards[1], 8) = <<" ", " ", " ", " ", " ", " ", "1", "0">>

C11_MergeAppends ==
    [][(last'.op = "merge_from" /\ last'.res.ok)
       => /\ deck'.cards = deck.cards \o other.cards
          /\ deck'.header.history
                = deck.header.history \o other.header.history
          /\ deck'.header
                = [deck.header EXCEPT !.history = deck'.header.history]
          /\ other' = other]_vars

\* A deck with two cards and a logged action took over the card and the
\* event of a deck built elsewhere.
C11_Witness ==
    /\ last.op = "merge_from"
    /\ last.res.ok
    /\ Len(other.cards) = 1
    /\ Len(deck.cards) = 3
    /\ deck.cards[1] # deck.cards[3]
    /\ Len(deck.header.history) = 2
    /\ deck.header.history[1].action = "card add"
    /\ deck.header.history[2].action = "deck import"

\* C12: slice_indices(indices) fails exactly when some index is >= the
\* deck length; when it succeeds it returns a new deck with the header of
\* the source whose k-th card is the source card at indices[k], in the
\* order given; the source deck is the same afterwards in both cases.
C12_SliceInOrder ==
    [][last'.op = "slice_indices"
       => LET indices == last'.indices
              r == last'.res
          IN  /\ deck' = deck
              /\ r.ok <=> \A k \in 1..Len(indices) :
                              indices[k] < Len(deck.cards)
              /\ ~r.ok => r.err = "IndexOutOfRange"
              /\ r.ok =>
                    /\ r.val.header = deck.header
                    /\ r.val.cards = [k \in 1..Len(indices)
                                        |-> deck.cards[indices[k] + 1]]
                    /\ other' = r.val]_vars

\* A deck of three different cards was sliced with [2, 0, 1].
C12_Witness ==
    /\ last.op = "slice_indices"
    /\ last.indices = <<2, 0, 1>>
    /\ last.res.ok
    /\ Cardinality(AllCards(deck)) = 3
    /\ other.cards = <<deck.cards[3], deck.cards[1], deck.cards[2]>>

IsPrefix(s, t) == Len(s) <= Len(t) /\ SubSeq(t, 1, Len(s)) = s

\* C14: log_action adds exactly one event, carrying the action given, at
\* the end of the history, and every deck operation (log_action,
\* append_card, insert_card, replace_card, number_sequence,
\* sort_by_sequence, merge_from) leaves the history it found as a prefix
\* of the history it leaves.
C14_AppendOnly ==
    [][/\ IsPrefix(deck.header.history, deck'.header.history)
       /\ last'.op = "log_action" =>
             /\ Len(deck'.header.history) = Len(deck.header.history) + 1
             /\ deck'.header.history[Len(deck'.header.history)].action
                   = last'.action
             /\ deck'.cards = deck.cards]_vars

\* An action was logged behind an event taken over by a merge.
C14_Witness ==
    /\ last.op = "log_action"
    /\ Len(deck.header.history) = 2
    /\ deck.header.history[1].action = "deck import"
    /\ deck.header.history[2].action = "card add"

\* C20: insert_card(index, card) fails with an out-of-range error exactly
\* when index > len, and replace_card(index, card) exactly when
\* index >= len; a successful insert puts the card at position index and
\* keeps the previous cards in their order around it; a successful replace
\* changes the card at position index and nothing else.
C20_IndexValidation ==
    [][/\ last'.op = "insert_card" =>
             LET index == last'.index
                 len == Len(deck.cards)
             IN  /\ (~last'.res.ok /\ last'.res.err = "IndexOutOfRange")
                        <=> index > len
                 /\ last'.res.ok =>
                       /\ Len(deck'.cards) = len + 1
                       /\ deck'.cards[index + 1] = last'.card
                       /\ \A i \in 1..len :
                             deck'.cards[IF i <= index THEN i ELSE i + 1]
                                = deck.cards[i]
                       /\ deck'.header = deck.header
       /\ last'.op = "replace_card" =>
             LET index == last'.index
                 len == Len(deck.cards)
             IN  /\ (~last'.res.ok /\ last'.res.err = "IndexOutOfRange")
                        <=> index >= len
                 /\ last'.res.ok =>
                       /\ Len(deck'.cards) = len
                       /\ deck'.cards[index + 1] = last'.card
                       /\ \A i \in 1..len :
                             i # index + 1 => deck'.cards[i] = deck.cards[i]
                       /\ deck'.header = deck.header]_vars

\* A card was inserted between two different cards.
C20_Witness ==
    /\ last.op = "insert_card"
    /\ last.res.ok
    /\ last.index = 1
    /\ Len(deck.cards) = 3
    /\ deck.cards[1] # deck.cards[3]
    /\ deck.cards[2] = last.card

\* The sort key of a card: its optional sequence number.
SameKey(a, b) == a.seq = b.seq

\* C13: sort_by_sequence leaves a permutation of the previous cards in
\* which numbered cards are in non-decreasing sequence order, every card
\* without a number comes after all numbered cards, and cards with equal
\* numbers, like cards without a number, keep their previous relative
\* order.
C13_StableSort ==
    [][last'.op = "sort_by_sequence"
       => LET n == Len(deck.cards)
              new == deck'.cards
          IN  /\ Len(new) = n
              /\ \A i, j \in 1..n :
                    i < j =>
                       /\ IsSome(new[j].seq) => IsSome(new[i].seq)
                       /\ (IsSome(new[i].seq) /\ IsSome(new[j].seq))
                             => Unwrap(new[i].seq) <= Unwrap(new[j].seq)
              /\ \E p \in [1..n -> 1..n] :
                    /\ \A i, j \in 1..n : i # j => p[i] # p[j]
                    /\ \A i \in 1..n : new[i] = deck.cards[p[i]]
                    /\ \A i, j \in 1..n :
                          (i < j /\ SameKey(new[i], new[j])) => p[i] < p[j]
              /\ deck'.header = deck.header]_vars

\* An un-numbered card that came first went behind two cards that share
\* the number 10 and kept their order.
C13_Witness ==
    /\ last.op = "sort_by_sequence"
    /\ Len(deck.cards) = 3
    /\ deck.cards[1].seq = Some(10)
    /\ deck.cards[1].meta.note = Some(<<"2">>)
    /\ deck.cards[2].seq = Some(10)
    /\ deck.cards[2].meta.note = Some(<<"3">>)
    /\ deck.cards[3].seq = None
    /\ deck.cards[3].meta.note = Some(<<"1">>)

\* C19: CardRecord::from_text refuses a text of more than 80 columns and
\* produces no card; a text of exactly 80 columns is stored as it is; a
\* shorter text is stored with its characters as they are, followed by
\* spaces up to exactly 80 columns; and the stored text, normalized once
\* more, is stored unchanged.
C19_Normalize ==
    /\ last.op = "from_text" =>
          LET text == last.text
              res == last.res
          IN  /\ ~res.ok <=> Len(text) > MAX_COLS
              /\ ~res.ok => res.err = "TextTooLong"
              /\ res.ok =>
                    LET stored == Unwrap(res.val.text)
                    IN  /\ Len(stored) = MAX_COLS
                        /\ SubSeq(stored, 1, Len(text)) = text
                        /\ \A i \in (Len(text) + 1)..MAX_COLS : stored[i] = " "
                        /\ Len(text) = MAX_COLS => stored = text
    /\ last.op = "from_text_again" =>
          /\ last.res.ok
          /\ last.res.val.text = Some(last.text)
          /\ last.res = last.first

\* A text of 79 characters, 40 of them two bytes wide, got one space.
C19_Witness ==
    /\ last.op = "from_text"
    /\ Len(last.text) = 79
    /\ last.text[79] = "CENT"
    /\ last.res.ok
    /\ Unwrap(last.res.val.text)[79] = "CENT"
    /\ Unwrap(last.res.val.text)[80] = " "

SameContent(a, b) == a.header = b.header /\ a.cards = b.cards

\* C15: hash() is a function of the deck content: two decks with equal
\* headers (history included) and equal card sequences have equal hashes,
\* and two decks that differ in a header field or in a field of a card
\* have different hashes (SHA-256 taken to be free of collisions).
C15_HashOfContent ==
    last.op = "hash" =>
        /\ last.a.ok
        /\ last.b.ok
        /\ SameContent(deck, other) <=> last.a.val = last.b.val

\* Two decks of one card that differ in the note of the card only.
C15_Witness ==
    /\ last.op = "hash"
    /\ deck.header = other.header
    /\ Len(deck.cards) = 1
    /\ Len(other.cards) = 1
    /\ deck.cards[1].meta.note = None
    /\ other.cards[1] = [deck.cards[1] EXCEPT !.meta.note = Some(<<"r", "e", "d">>)]
    /\ last.a.val # last.b.val

\* C16: load of the file that save has just written returns a deck with
\* the same header, history included, and the same cards with all their
\* fields, in the same order.
C16_RoundTrip ==
    [][(last.op = "save" /\ last'.op = "load")
       => /\ last'.res.ok
          /\ last'.res.val.header = deck.header
          /\ last'.res.val.cards = deck.cards
          /\ other' = last'.res.val]_vars

\* A deck of a numbered card and an unnumbered one came back from its file.
C16_Witness ==
    /\ last.op = "load"
    /\ last.res.ok
    /\ disk = SaveLines(deck)
    /\ Len(other.cards) = 2
    /\ other.cards[1].seq = Some(10)
    /\ other.cards[2].seq = None

NonBlank(raw) == ~IsBlank(raw)

\* C17 as stated: a file that differs from the file of a deck only by
\* blank (empty or white-space-only) lines, wherever they stand, loads to
\* that deck.
C17_AsStated ==
    (last.op = "load" /\ SelectSeq(disk, NonBlank) = SaveLines(deck))
    => /\ last.res.ok
       /\ SameContent(last.res.val, deck)

\* C18: load fails, and returns no deck, when the file is empty, when the
\* first record is a card, when a header record stands on a later line,
\* and when a line that is not blank is not a record.
C18_Malformed ==
    last.op = "load" =>
        LET record == [k \in 1..Len(disk) |-> from_str(disk[k])]
            malformed ==
                \/ disk = <<>>
                \/ disk # <<>> /\ record[1].ok /\ record[1].val.kind = "card"
                \/ \E k \in 2..Len(disk) :
                      record[k].ok /\ record[k].val.kind = "header"
                \/ \E k \in 1..Len(disk) :
                      ~IsBlank(disk[k]) /\ ~record[k].ok
        IN  malformed => ~last.res.ok

\* A second header on line 3 of a file of a header and a card was refused.
C18_Witness ==
    /\ last.op = "load"
    /\ ~last.res.ok
    /\ last.res.err = "MultipleHeaders"
    /\ last.res.line = 3
    /\ Len(disk) = 3
    /\ steps = 1

\* The rows a mask punches: bit 0..9 is row 0..9, bit 10 row 11, bit 11
\* row 12 (encoding.rs, the comment on CellMask).
PunchedRows(m) ==
    {row \in (0..9) \cup {11, 12} :
        (m \div Pow2(IF row = 12 THEN 11 ELSE IF row = 11 THEN 10 ELSE row)) % 2 = 1}

LetterIndex(ch) == CHOOSE i \in 1..Len(ASCII_UPPER) : ASCII_UPPER[i] = ch

\* The rows of the reference chart for the digits, the capital letters,
\* the space, '&', '-' and '/'.
ChartChars ==
    {DIGITS[i] : i \in 1..Len(DIGITS)}
    \cup {ASCII_UPPER[i] : i \in 1..Len(ASCII_UPPER)}
    \cup {" ", "&", "-", "/"}

ChartRows(ch) ==
    IF IsDigit(ch) THEN {DigitValue(ch)}
    ELSE IF ch = " " THEN {}
    ELSE IF ch = "&" THEN {12}
    ELSE IF ch = "-" THEN {11}
    ELSE IF ch = "/" THEN {0, 1}
    ELSE IF LetterIndex(ch) <= 9 THEN {12, LetterIndex(ch)}
    ELSE IF LetterIndex(ch) <= 18 THEN {11, LetterIndex(ch) - 9}
    ELSE {0, LetterIndex(ch) - 17}

\* C21: a digit d punches only row d; A-I punch row 12 and rows 1-9, J-R
\* row 11 and rows 1-9, S-Z row 0 and rows 2-9; the space punches no row,
\* '&' only row 12, '-' only row 11, '/' rows 0 and 1.
C21_ZoneDigit ==
    (IsSome(enc.ra) /\ enc.a \in ChartChars)
    => /\ Unwrap(enc.ra).ok
       /\ Unwrap(enc.ra).val \in 0..4095
       /\ PunchedRows(Unwrap(enc.ra).val) = ChartRows(enc.a)

\* 'Z' (rows 0 and 9) and '7' (row 7) were encoded.
C21_Witness ==
    /\ IsSome(enc.ra)
    /\ enc.a = "Z"
    /\ enc.b = "7"
    /\ PunchedRows(Unwrap(enc.ra).val) = {0, 9}
    /\ PunchedRows(Unwrap(enc.rb).val) = {7}

\* The rows of the grid, top to bottom.
GridRows == <<12, 11, 0, 1, 2, 3, 4, 5, 6, 7, 8, 9>>

\* The cells of the r-th grid line of a rendering: what stands between the
\* label and the closing bar.
GridCells(out, r) == SubSeq(out[4 + r], 6, Len(out[4 + r]) - 1)

MarkOf(style) == IF style = "AsciiX" THEN "X" ELSE "1"
BlankOf(style) == IF style = "AsciiX" THEN " " ELSE "0"

\* C22: render emits the twelve grid rows in the order 12, 11, 0, ..., 9,
\* each of exactly 80 cells; the cell of row r and column c is the mark
\* (X, or 1) exactly when row r is punched in the mask of column c, and the
\* blank (space, or 0) otherwise; for the text HELLO the marks are those of
\* H, E, L, L, O in columns 1-5 and columns 6-80 are blank.
C22_RenderGrid ==
    (plast.op = "render" /\ pcard.ok) =>
        /\ Len(plast.out) = 4 + 12 + 1
        /\ \A r \in 1..12 :
              /\ SubSeq(plast.out[4 + r], 1, 5)
                    = <<" ">> \o ROW_LABELS[r] \o <<" ", "|">>
              /\ ROW_LABELS[r] = FormatRight(GridRows[r], 2)
              /\ plast.out[4 + r][Len(plast.out[4 + r])] = "|"
              /\ Len(GridCells(plast.out, r)) = 80
              /\ \A c \in 1..80 :
                    GridCells(plast.out, r)[c] =
                        IF GridRows[r] \in PunchedRows(pcard.val.cols[c])
                        THEN MarkOf(plast.style) ELSE BlankOf(plast.style)
        /\ pcard.val.raw_text = CardHello =>
              \A r \in 1..12, c \in 1..80 :
                  (GridCells(plast.out, r)[c] = MarkOf(plast.style))
                  <=> (c <= 5 /\ GridRows[r] \in ChartRows(CardHello[c]))

\* HELLO was rendered in the AsciiX style: H shows an X in rows 12 and 8.
C22_Witness ==
    /\ plast.op = "render"
    /\ plast.style = "AsciiX"
    /\ pcard.ok
    /\ pcard.val.raw_text = CardHello
    /\ GridCells(plast.out, 1)[1] = "X"
    /\ GridCells(plast.out, 11)[1] = "X"
    /\ GridCells(plast.out, 2)[1] = " "

\* The character of column i (1-based) of a text, a space beyond its end.
CharAt(text, i) == IF i <= Len(text) THEN text[i] ELSE " "

IsSeqChar(ch) == IsDigit(ch) \/ ch = " "

\* C23: a PunchCard made by from_str(s) and any number of with_sequence
\* calls has at most 80 columns of text; before the first with_sequence the
\* text is s cut to its first 80 columns; afterwards every column holds the
\* character of s (a space beyond its end) unless that was a space and a
\* sequence digit was written there; the mask of every column is
\* encode_char of the column's character; and the text line of render is
\* that text padded to 80 columns.
C23_TextAuthoritative ==
    (plast.op # "new" /\ pcard.ok) =>
        /\ Len(pcard.val.raw_text) <= 80
        /\ plast.op = "from_str" => pcard.val.raw_text = Take(plast.s, 80)
        /\ \A i \in 1..80 :
              /\ \/ CharAt(pcard.val.raw_text, i) = CharAt(plast.s, i)
                 \/ /\ CharAt(plast.s, i) = " "
                    /\ IsDigit(CharAt(pcard.val.raw_text, i))
              /\ encode_char(CharAt(pcard.val.raw_text, i)).ok
              /\ pcard.val.cols[i]
                    = encode_char(CharAt(pcard.val.raw_text, i)).val
        /\ plast.op = "render" =>
              plast.out[3] = Fill(" ", 5)
                  \o [i \in 1..80 |-> CharAt(pcard.val.raw_text, i)]

\* An 82-column input was cut to 80, numbered, and rendered.
C23_Witness ==
    /\ plast.op = "render"
    /\ pcard.ok
    /\ Len(plast.s) = 82
    /\ pcard.val.raw_text[78] = "A"
    /\ pcard.val.raw_text[80] = "2"

\* C24: with_sequence leaves the text and the masks of columns 1-71 as they
\* were, whatever the sequence value.
C24_AsStated ==
    [][(/\ plast'.op = "with_sequence"
        /\ pcard.ok
        /\ pcard'.ok)
       => \A i \in 1..71 :
             /\ CharAt(pcard'.val.raw_text, i) = CharAt(pcard.val.raw_text, i)
             /\ pcard'.val.cols[i] = pcard.val.cols[i]]_vars

\* C25: number_sequence leaves columns 1-72 of every card's text, and
\* every field of the card but text and seq, as they were; a card without
\* text only has its seq field set.
C25_AsStated ==
    [][last'.op = "number_sequence"
       => /\ Len(deck'.cards) = Len(deck.cards)
          /\ \A k \in 1..Len(deck.cards) :
                IF IsSome(deck.cards[k].text)
                THEN /\ [deck'.cards[k] EXCEPT !.text = None, !.seq = None]
                          = [deck.cards[k] EXCEPT !.text = None, !.seq = None]
                     /\ IsSome(deck'.cards[k].text)
                     /\ \A i \in 1..72 :
                           CharAt(TextOf(deck'.cards[k]), i)
                              = CharAt(TextOf(deck.cards[k]), i)
                ELSE [deck'.cards[k] EXCEPT !.seq = None]
                          = [deck.cards[k] EXCEPT !.seq = None]]_vars

Supported(ch) == to_ascii_uppercase(ch) \in SupportedSet

\* The 80-column chunks of one line, the last one padded; a blank card for
\* an empty line.
ChunksOf(line) ==
    IF line = <<>> THEN <<Fill(" ", 80)>>
    ELSE [c \in 1..((Len(line) + 79) \div 80) |->
            [i \in 1..80 |-> CharAt(line, 80 * (c - 1) + i)]]

RECURSIVE ChunksOfLines(_, _)
ChunksOfLines(lines, k) ==
    IF k > Len(lines) THEN <<>>
    ELSE ChunksOf(lines[k]) \o ChunksOfLines(lines, k + 1)

ExpectedChunks(lines) ==
    IF lines = <<>> THEN <<Fill(" ", 80)>> ELSE ChunksOfLines(lines, 1)

C27_ProtectedBlank ==
    \A k \in 1..Len(deck.cards) : \A c \in ProtectedSet(deck.header) :
        /\ IsSome(deck.cards[k].text)
        /\ TextOf(deck.cards[k])[c] = " "

\* With column 72 protected, a card was replaced by a card with another
\* text; the deck holds two different cards.
C27_Witness ==
    /\ ProtectedSet(deck.header) = {72}
    /\ last.op = "replace_card"
    /\ last.res.ok
    /\ last.index = 0
    /\ Len(deck.cards) >= 2
    /\ TextOf(deck.cards[1])[1] = "C"
    /\ TextOf(deck.cards[2])[1] = "A"

\* C29: sort_by_sequence called directly after number_sequence(start, step),
\* for any step >= 0, leaves the cards in the order they had; and
\* sort_by_sequence called directly after sort_by_sequence changes nothing.
C29_NumberThenSort ==
    [][(/\ last.op \in {"number_sequence", "sort_by_sequence"}
        /\ last'.op = "sort_by_sequence"
        /\ steps' = steps + 1)
       => deck'.cards = deck.cards]_vars

\* A deck of at least two cards that was numbered with step 0 (every card
\* has 7) and then sorted: the cards, told apart by their notes, are in the
\* order they were made in.
C29_Witness ==
    /\ last.op = "sort_by_sequence"
    /\ Len(deck.cards) >= 2
    /\ \A k \in 1..Len(deck.cards) :
        /\ deck.cards[k].seq = Some(7)
        /\ deck.cards[k].meta.note = Some(ToDecimal(k))

\* The deck a file holds.
OnDisk(file) == load(file, DeckPath).val

\* C28 (as stated): when `seq number` has numbered the deck file and the
\* next command is a `card replace` of card i that succeeds, card i has the
\* sequence number it had before, and sort_by_sequence moves no card of
\* the deck then on file.
C28_AsStated ==
    [][(/\ last.op = "seq number" /\ last.res.ok
        /\ last'.op = "card replace" /\ last'.res.ok)
       => /\ OnDisk(disk').cards[last'.index].seq
               = OnDisk(disk).cards[last'.index].seq
          /\ sort_by_sequence(OnDisk(disk')).cards = OnDisk(disk').cards]_vars

\* The action each command logs.
LoggedAction(op) ==
    CASE op = "card add" -> "card add"
      [] op = "card type" -> "card type"
      [] op = "card replace" -> "card replace INDEX"
      [] op = "card patch" -> "card patch"
      [] op = "seq number" -> "seq number start=START step=STEP"
      [] op = "seq sort" -> "seq sort"
      [] op = "deck import" -> "import from SOURCE"
      [] op = "deck merge" -> "merge 2 decks into DECK"
      [] op = "deck slice" -> "slice RANGE -> DECK"

\* The history a command starts from, given what load_deck returned: that
\* of the deck loaded, followed for a merge by that of the second input;
\* none for an import, which loads nothing.
BaseHistory(op, loaded, second) ==
    CASE op = "deck import" -> <<>>
      [] op = "deck merge" ->
            loaded.val.header.history \o second.header.history
      [] OTHER -> loaded.val.header.history

\* The cards a command adds to those of the deck it loads.
CardsAdded(l) ==
    CASE l.op \in {"card add", "card type"} -> Len(split_lines_fixed(l.text))
      [] l.op = "card patch" -> 1
      [] l.op = "card replace" -> 0

HistoryOf(file) == OnDisk(file).header.history

\* What a successful command l made of the deck loaded, given the history
\* it started from and the deck `after` that its file holds.
Committed(l, loaded, base, after) ==
    /\ Len(after.header.history) = Len(base) + 1
    /\ SubSeq(after.header.history, 1, Len(base)) = base
    /\ after.header.history[Len(base) + 1].action = LoggedAction(l.op)
    /\ l.op \in {"card add", "card type", "card patch", "card replace"}
           => Len(after.cards) = Len(loaded.val.cards) + CardsAdded(l)

\* C30: a command of the CLI that changes a deck either fails and leaves
\* the deck file as it was, or writes a file that holds the result of all
\* its changes (every card of an add is there) and whose history is the
\* one it started from followed by exactly one event, the command's own.
C30_LoadMutateLogSave ==
    [][steps' = steps + 1 =>
        IF ~last'.res.ok THEN disk' = disk
        ELSE \A loaded \in {load(disk, DeckPath)}, written \in {load(disk', DeckPath)} :
                /\ written.ok
                /\ \A base \in {BaseHistory(last'.op, loaded, other)} :
                        Committed(last', loaded, base, written.val)]_vars

\* A `card add` of two lines to a deck with protected columns, whose second
\* line has content there: the command failed after its first card was put
\* into the deck in memory, and the file is the one the command before it
\* wrote.
C30_Witness ==
    /\ steps = 2
    /\ last.op = "card add"
    /\ last.text = TextTwoLines
    /\ ~last.res.ok
    /\ last.res.err = "ProtectedNew"
    /\ Len(HistoryOf(disk)) = 2
    /\ HistoryOf(disk)[2].action = "card patch"
    /\ Len(OnDisk(disk).cards) = 1

====
